---- MODULE Spec2Model ----
(***************************************************************************)
(* Model of make_bnk.py, the sound-bank encoder of MMBNLC-Scripts, and of   *)
(* make_pck.py and make_pck_set_id.py, which pack the streamed clips.       *)
(*                                                                         *)
(* Strings are sequences of code points.  The 32-bit name hashes exceed   *)
(* the model checker's signed 32-bit integers and are held as two 16-bit   *)
(* halves; sizes, offsets and counts are ordinary integers.                *)
(***************************************************************************)
EXTENDS Integers, Sequences, FiniteSets, TLC

\* ------------------------------------------------------------------ bounds
\* Longest name given to compute_hash in HashSpec.
MaxNameLen == 2
\* Most lines of the wem table.
MaxLines == 2
\* Largest size, in bytes, of a .wem file.
MaxClipLen == 4
\* Most lines of the wem table of a pck builder.
MaxPckLines == 2

\* ---------------------------------------------------------- code points
\* Code points the names of HashSpec are built from:
\* 'A' 'a' 'b' 'I' 'i' '.' and U+0131 (dotless i, whose upper case is 'I').
Alphabet == {65, 97, 98, 73, 105, 46, 305}

\* Variant of LowerChar that folds nothing.
LowerNoFoldChar(c) == c

\* str.lower() on one code point, for the code points used in this module.
\* Of those only the ASCII capitals change; U+0131 is already lower case.
LowerChar(c) == IF c \in 65..90 THEN c + 32 ELSE c

\* str.lower(): code point by code point.
Lower(s) == [i \in 1..Len(s) |-> LowerChar(s[i])]

\* ------------------------------------------------------------ compute_hash
Max(a, b) == IF a >= b THEN a ELSE b

\* a ^ b on two natural numbers.
RECURSIVE BitXor(_, _)
BitXor(a, b) ==
    IF a = 0 THEN b
    ELSE IF b = 0 THEN a
    ELSE ((a + b) % 2) + 2 * BitXor(a \div 2, b \div 2)

\* A hash value is held as its two 16-bit halves <<high, low>>.
\* 2166136261 = 33052 * 2^16 + 40389.
FNVOffsetBasis == <<33052, 40389>>

\* Variant of HashStep that XORs before it multiplies.
HashStepXorFirst(hash, c) ==
    LET xlow == BitXor(c % 65536, hash[2])
        xhigh == BitXor(c \div 65536, hash[1])
        low == xlow * 403
        high == xhigh * 403 + xlow * 256 + (low \div 65536)
    IN  <<high % 65536, low % 65536>>

\* One iteration of the loop of compute_hash:
\* hash = ((hash * 16777619) ^ ord(c)) & 0xFFFFFFFF, with
\* 16777619 = 256 * 2^16 + 403.  Of the product only the part below 2^32
\* outlives the mask: low = hash.low * 403, and
\* high = hash.high * 403 + hash.low * 256 + the carry of low.
HashStep(hash, c) ==
    LET low == hash[2] * 403
        high == hash[1] * 403 + hash[2] * 256 + (low \div 65536)
    IN  <<BitXor(c \div 65536, high % 65536), BitXor(c % 65536, low % 65536)>>

RECURSIVE HashLoop(_, _, _)
HashLoop(hash, name, i) ==
    IF i > Len(name) THEN hash
    ELSE HashLoop(HashStep(hash, name[i]), name, i + 1)

\* ---------------------------------------------------------------- strings
\* "SFX", "BGM" and the suffixes of the f-strings, as code points.
StrSFX == <<83, 70, 88>>
StrBGM == <<66, 71, 77>>
SuffixSound == <<95, 115, 111, 117, 110, 100>>
SuffixPlayEvent == <<95, 112, 108, 97, 121, 95, 101, 118, 101, 110, 116>>
SuffixPlay == <<95, 112, 108, 97, 121>>
SuffixStop1 == <<95, 115, 116, 111, 112, 49>>
SuffixStop2 == <<95, 115, 116, 111, 112, 50>>
SuffixBgmMix == <<95, 98, 103, 109, 95, 109, 105, 120>>
SuffixSfxMix == <<95, 115, 102, 120, 95, 109, 105, 120>>

\* str.upper() on the ASCII tokens of the table's first column.
Upper(s) == [i \in 1..Len(s) |-> IF s[i] \in 97..122 THEN s[i] - 32 ELSE s[i]]

\* ----------------------------------------------------------------- inputs
\* args.bnk_file: the bank is written to the file "o".
bnk_out == <<111>>

\* The .wem paths a table line can name: "a", "A" and "c".  The hash of "c"
\* is below the hash of "a", and the hash of "c_sound" above "a_sound".
Paths == {<<97>>, <<65>>, <<99>>}

\* The first column of a table line: "SFX", "bgm" or "xyz".
TypeTokens == {<<83, 70, 88>>, <<98, 103, 109>>, <<120, 121, 122>>}

\* A line after line.strip().split('\t'): <<type token, path>>.
Lines == TypeTokens \X Paths

RECURSIVE SeqsUpTo(_, _)
SeqsUpTo(S, n) ==
    IF n = 0 THEN {<<>>}
    ELSE LET shorter == SeqsUpTo(S, n - 1)
         IN  shorter \cup {Append(s, x) : s \in shorter, x \in S}

\* The names make_bnk.py hashes while it builds a bank from these inputs.
HashedNames ==
    {bnk_out, StrSFX, bnk_out \o SuffixBgmMix, bnk_out \o SuffixSfxMix}
        \cup {path \o suffix :
                 path \in Paths,
                 suffix \in {<<>>, SuffixSound, SuffixPlayEvent, SuffixPlay,
                             SuffixStop1, SuffixStop2}}

\* The loop of compute_hash run once on each of those names.
HashOf == [name \in HashedNames |-> HashLoop(FNVOffsetBasis, Lower(name), 1)]

\* compute_hash(name).  The value of a name of HashedNames is taken from
\* HashOf, where the same loop computed it; any other name runs the loop.
compute_hash(name) ==
    IF name \in HashedNames THEN HashOf[name]
    ELSE HashLoop(FNVOffsetBasis, Lower(name), 1)

\* A file of the disk: absent, or present with its bytes.
NoFile == [exists |-> FALSE, data |-> <<>>]
File(data) == [exists |-> TRUE, data |-> data]

\* The n bytes of the .wem file at path: distinct per path and position, never 0.
ClipData(path, n) == [i \in 1..n |-> path[1] + i]

\* ------------------------------------------------------------------ state
VARIABLES
    h_pc,       \* HashSpec: "call" before compute_hash is applied, "done" after
    h_name,     \* HashSpec: the argument of compute_hash
    h_hash,     \* HashSpec: the value compute_hash returned (<<>> before)
    exclude_bgm,          \* input: args.exclude_bgm
    lines_read,           \* the number of lines of the wem table read so far
    invalid_read,         \* history: the lines read whose type is not SFX or BGM
    wem_table,            \* disk: the lines of the wem table, kept for a second run
    wem_files,            \* disk: path -> the .wem file found there so far
    pc,                   \* position of the script
    in_sfx_wems,
    in_bgm_wems,
    media_file_lookup,    \* dict in insertion order: a sequence of MediaEntry
    sorted_media_hashes,
    bnk_bytes,            \* bnk_file: its bytes
    bnk_pos,              \* bnk_file: its position (bnk_file.tell())
    didx_return_offset,
    data_size_offset,
    wem_offset,
    HIRC_len_location,
    sound_entry_list,
    mixer_order,
    event_entry_list,
    mixer_i,              \* index of the mixer loop (line 205) into mixer_order
    idx,                  \* index of the running inner loop
    hirc_log,             \* history: the object records written into HIRC
    padding_written,      \* history: the zero bytes written as padding in DATA
    run,                  \* 0: the only run; 1, 2: the first, the second of two
    first_out,            \* history: the output file the first run left
    h_pck_hash,           \* HashSpec: the value make_pck's compute_hash returned
    pck_script,           \* PckSpec: "make_pck" or "make_pck_set_id"
    pck_pc,               \* position of the pck builder
    pck_table,            \* history: the lines of the table read so far
    language_id,          \* the variable language_id of the parse loop
    pck_lookup,           \* media_file_lookup / wem_replacements, as a dict
    wem_hashes,
    pck_wems,             \* disk: path -> the .wem file found there so far
    pck_bytes,            \* pck: its bytes
    pck_pos,              \* pck: its position
    pck_wem_offset,       \* wem_offset of the pck builder
    pck_idx               \* index of the running loop over wem_hashes

hvars == <<h_pc, h_name, h_hash, h_pck_hash>>
inputs == <<exclude_bgm, lines_read, invalid_read, wem_table, wem_files>>
parsed == <<in_sfx_wems, in_bgm_wems>>
catalog == <<media_file_lookup, sorted_media_hashes>>
file == <<bnk_bytes, bnk_pos>>
marks == <<didx_return_offset, data_size_offset, wem_offset, HIRC_len_location>>
lists == <<sound_entry_list, mixer_order, event_entry_list>>
bvars == <<inputs, pc, parsed, catalog, file, marks, lists, mixer_i, idx, hirc_log,
            padding_written>>
rvars == <<run, first_out>>
pvars == <<pck_script, pck_pc, pck_table, language_id, pck_lookup, wem_hashes, pck_wems,
            pck_bytes, pck_pos, pck_wem_offset, pck_idx>>
vars == <<hvars, bvars, rvars, pvars>>

\* The hash variables while the bank is built, and the bank's while hashing.
HashIdle == h_pc = "idle" /\ h_name = <<>> /\ h_hash = <<>> /\ h_pck_hash = <<>>
\* language_id before its first assignment.
NoLanguageId == -1
PckIdle ==
    /\ pck_script = "idle" /\ pck_pc = "idle" /\ pck_table = <<>>
    /\ language_id = NoLanguageId
    /\ pck_lookup = <<>> /\ wem_hashes = <<>> /\ pck_wems = <<>>
    /\ pck_bytes = <<>> /\ pck_pos = 0 /\ pck_wem_offset = 0 /\ pck_idx = 0
BankIdle ==
    /\ exclude_bgm = FALSE /\ lines_read = 0 /\ invalid_read = 0
    /\ wem_table = <<>> /\ wem_files = <<>>
    /\ pc = "idle"
    /\ in_sfx_wems = <<>> /\ in_bgm_wems = <<>>
    /\ media_file_lookup = <<>> /\ sorted_media_hashes = <<>>
    /\ bnk_bytes = <<>> /\ bnk_pos = 0
    /\ didx_return_offset = -1 /\ data_size_offset = -1
    /\ wem_offset = -1 /\ HIRC_len_location = -1
    /\ sound_entry_list = <<>> /\ mixer_order = <<>> /\ event_entry_list = <<>>
    /\ mixer_i = 0 /\ idx = 0
    /\ hirc_log = <<>>
    /\ padding_written = 0
    /\ run = 0 /\ first_out = <<>>

\* ------------------------------------------------------------- HashSpec
HashInit ==
    /\ h_pc = "call"
    /\ h_name \in SeqsUpTo(Alphabet, MaxNameLen)
    /\ h_hash = <<>>
    /\ h_pck_hash = <<>>
    /\ BankIdle
    /\ PckIdle

ApplyHash ==
    /\ h_pc = "call"
    /\ h_hash' = compute_hash(h_name)
    /\ h_pc' = "done"
    /\ UNCHANGED <<h_name, h_pck_hash, bvars, rvars, pvars>>

\* make_pck.py, lines 27-32: its own copy of compute_hash.
\* Line 31: hash = ((hash * 16777619) ^ ord(c)) & 0xFFFFFFFF, on halves.
pck_HashStep(hash, c) ==
    LET low == hash[2] * 403
        high == hash[1] * 403 + hash[2] * 256 + (low \div 65536)
    IN  <<BitXor(c \div 65536, high % 65536), BitXor(c % 65536, low % 65536)>>

RECURSIVE pck_HashLoop(_, _, _)
pck_HashLoop(hash, name, i) ==
    IF i > Len(name) THEN hash
    ELSE pck_HashLoop(pck_HashStep(hash, name[i]), name, i + 1)

\* Variant that hashes the name as given, without name.lower().
pck_compute_hash_as_given(name) == pck_HashLoop(<<33052, 40389>>, name, 1)

\* Line 28: hash = 2166136261, as halves; line 29: name.lower().
pck_compute_hash(name) == pck_HashLoop(<<33052, 40389>>, Lower(name), 1)

ApplyPckHash ==
    /\ h_pc # "idle"
    /\ h_pck_hash = <<>>
    /\ h_pck_hash' = pck_compute_hash(h_name)
    /\ UNCHANGED <<h_pc, h_name, h_hash, bvars, rvars, pvars>>

HashNext == ApplyHash \/ ApplyPckHash

HashSpec == HashInit /\ [][HashNext]_vars

\* ------------------------------------------------------------ bnk_file
\* Four little-endian bytes of a size, offset or count: n.to_bytes(4, "little").
IntToBytes(n) ==
    <<n % 256, (n \div 256) % 256, (n \div 65536) % 256, (n \div 16777216) % 256>>

\* Four little-endian bytes of a hash value: hash.to_bytes(4, "little").
HashToBytes(h) == <<h[2] % 256, h[2] \div 256, h[1] % 256, h[1] \div 256>>

\* Variant of FileWrite that ignores the position and appends.
FileWriteAppendOnly(bytes, pos, data) == bytes \o data

\* bytes([0] * n)
Zeros(n) == [i \in 1..n |-> 0]

\* bnk_file.write(data) at position pos of a file holding bytes: the bytes
\* ahead of pos stay, the bytes between the old end and pos, if any, read as
\* zero, data takes the place of what was there, and what lies behind stays.
FileWrite(bytes, pos, data) ==
    LET n == Len(bytes)
        ahead == IF pos <= n THEN SubSeq(bytes, 1, pos)
                 ELSE bytes \o Zeros(pos - n)
    IN  ahead \o data \o SubSeq(bytes, pos + Len(data) + 1, n)

\* ------------------------------------------------------ order of hashes
\* a < b on two hash values.
HashLess(a, b) == a[1] < b[1] \/ (a[1] = b[1] /\ a[2] < b[2])

\* The order a stable ascending sort gives to the keys: a sequence of
\* indices into keys (sorted(), and list.sort(key = ...) on the keys' owners).
RECURSIVE StableOrder(_)
StableOrder(keys) ==
    IF keys = <<>> THEN <<>>
    ELSE LET n == Len(keys)
             front == StableOrder(SubSeq(keys, 1, n - 1))
             k == Cardinality({j \in 1..Len(front) : ~HashLess(keys[n], keys[front[j]])})
         IN  SubSeq(front, 1, k) \o <<n>> \o SubSeq(front, k + 1, Len(front))

\* list sorted by the key of each element, keys[i] being the key of list[i].
SortedBy(list, keys) ==
    LET order == StableOrder(keys) IN [i \in 1..Len(list) |-> list[order[i]]]

\* Variant of SortedKeys that keeps the dict's insertion order.
KeysUnsorted(keys) == keys

\* sorted(list(media_file_lookup.keys()))
SortedKeys(keys) == SortedBy(keys, keys)

\* --------------------------------------------------------- dict of media
DictKeys(d) == [i \in 1..Len(d) |-> d[i].hash]
DictHas(d, key) == \E i \in 1..Len(d) : d[i].hash = key
DictGet(d, key) == d[CHOOSE i \in 1..Len(d) : d[i].hash = key]
\* d[key] = entry: replaces the value of a key the dict holds, else appends.
DictSet(d, key, entry) ==
    IF DictHas(d, key)
    THEN [i \in 1..Len(d) |-> IF d[i].hash = key THEN entry ELSE d[i]]
    ELSE Append(d, entry)

\* `wem_filename in media_file_lookup`: the keys are the int hashes, and a
\* str compares unequal to every int.
StrEqualsInt(name, key) == FALSE
StrInKeys(name, d) == \E i \in 1..Len(d) : StrEqualsInt(name, d[i].hash)

\* -------------------------------------------------------------- Spec: Init
Init ==
    /\ HashIdle
    /\ PckIdle
    /\ exclude_bgm \in BOOLEAN
    /\ lines_read = 0
    /\ invalid_read = 0
    /\ wem_table = <<>>
    /\ wem_files = [p \in Paths |-> NoFile]
    /\ pc = "read_table"
    /\ in_sfx_wems = <<>> /\ in_bgm_wems = <<>>
    /\ media_file_lookup = <<>> /\ sorted_media_hashes = <<>>
    /\ bnk_bytes = <<>> /\ bnk_pos = 0
    /\ didx_return_offset = -1 /\ data_size_offset = -1
    /\ wem_offset = -1 /\ HIRC_len_location = -1
    /\ sound_entry_list = <<>> /\ mixer_order = <<>> /\ event_entry_list = <<>>
    /\ mixer_i = 0 /\ idx = 0
    /\ hirc_log = <<>>
    /\ padding_written = 0
    /\ run = 0 /\ first_out = <<>>

\* ------------------------------------------------- lines 73-84: the table
\* The lines the table can hold at line i (from 1): any line, and in a
\* second run the line the first run found there.
TableLinesAt(i) ==
    IF run < 2 THEN Lines
    ELSE IF i <= Len(wem_table) THEN {wem_table[i]}
    ELSE {}

\* Variant of AppendIfType that takes a line of no known type for wanted "SFX".
AppendAlsoUnknown(list, wem_type, wanted, wem_path) ==
    IF wem_type = wanted \/ (wanted = StrSFX /\ wem_type # StrBGM)
    THEN Append(list, wem_path)
    ELSE list

\* Lines 78-84: a case of the match appends the path to its list.
AppendIfType(list, wem_type, wanted, wem_path) ==
    IF wem_type = wanted THEN Append(list, wem_path) ELSE list

\* One iteration of the loop: the next line of the table is read and sorted
\* into in_sfx_wems or in_bgm_wems; a line of another type is reported with
\* print, and the loop goes on.
ReadLine ==
    /\ pc = "read_table"
    /\ lines_read < MaxLines
    /\ \E line_split \in TableLinesAt(lines_read + 1) :
          LET wem_type == Upper(line_split[1])
              wem_path == line_split[2]
          IN  /\ in_sfx_wems' = AppendIfType(in_sfx_wems, wem_type, StrSFX, wem_path)
              /\ in_bgm_wems' = AppendIfType(in_bgm_wems, wem_type, StrBGM, wem_path)
              /\ invalid_read' =
                     IF wem_type \in {StrSFX, StrBGM} THEN invalid_read
                     ELSE invalid_read + 1
              /\ wem_table' = IF run = 1 THEN Append(wem_table, line_split)
                              ELSE wem_table
    /\ lines_read' = lines_read + 1
    /\ UNCHANGED <<hvars, rvars, pvars, exclude_bgm, wem_files, pc, catalog, file, marks, lists,
                   mixer_i, idx, hirc_log, padding_written>>

\* The table has no further line.
EndOfTable ==
    /\ pc = "read_table"
    /\ run = 2 => lines_read = Len(wem_table)
    /\ pc' = "catalog"
    /\ UNCHANGED <<hvars, rvars, pvars, inputs, parsed, catalog, file, marks, lists, mixer_i, idx,
                   hirc_log, padding_written>>

\* --------------------------------------------- lines 86-110: the catalog
bnk_bgm_audio_mixer == bnk_out \o SuffixBgmMix
bnk_sfx_audio_mixer == bnk_out \o SuffixSfxMix

\* Variant of StoredWems that stores the BGM clips whatever the option.
StoredWemsAll(sfx, bgm, exclude) == sfx \o bgm

\* Variant that never stores a BGM clip.
StoredWemsSfxOnly(sfx, bgm, exclude) == sfx

\* Lines 92-95.
StoredWems(sfx, bgm, exclude) == IF exclude THEN sfx ELSE sfx \o bgm

MediaEntry(hash, wem_filename, offset, size) ==
    [hash |-> hash, wem_filename |-> wem_filename, offset |-> offset, size |-> size]

\* The loop of lines 97-107 from element i on; exited = exit(1) was called.
RECURSIVE CatalogLoop(_, _, _)
CatalogLoop(stored, i, lookup) ==
    IF i > Len(stored) THEN [lookup |-> lookup, exited |-> FALSE]
    ELSE IF StrInKeys(stored[i], lookup) THEN [lookup |-> lookup, exited |-> TRUE]
    ELSE LET hash == compute_hash(stored[i])
         IN  CatalogLoop(stored, i + 1,
                         DictSet(lookup, hash, MediaEntry(hash, stored[i], -1, -1)))

BuildCatalog ==
    /\ pc = "catalog"
    /\ LET r == CatalogLoop(StoredWems(in_sfx_wems, in_bgm_wems, exclude_bgm), 1, <<>>)
       IN  /\ media_file_lookup' = r.lookup
           /\ sorted_media_hashes' =
                  IF r.exited THEN <<>> ELSE SortedKeys(DictKeys(r.lookup))
           /\ pc' = IF r.exited THEN "exit" ELSE "open"
    /\ UNCHANGED <<hvars, rvars, pvars, inputs, parsed, file, marks, lists, mixer_i, idx, hirc_log, padding_written>>

\* ------------------------------------------ lines 112-121: the bank header
TagBKHD == <<66, 75, 72, 68>>
TagDIDX == <<68, 73, 68, 88>>
TagDATA == <<68, 65, 84, 65>>
TagHIRC == <<72, 73, 82, 67>>

BankHeader ==
    TagBKHD \o IntToBytes(24) \o IntToBytes(140)
        \o HashToBytes(compute_hash(bnk_out)) \o HashToBytes(compute_hash(StrSFX))
        \o IntToBytes(16) \o IntToBytes(11146) \o IntToBytes(0)

\* open(bnk_out, "wb") and the eight writes of the header; then the test of
\* line 124.
WriteBKHD ==
    /\ pc = "open"
    /\ bnk_bytes' = FileWrite(<<>>, 0, BankHeader)
    /\ bnk_pos' = Len(BankHeader)
    /\ pc' = IF Len(media_file_lookup) > 0 THEN "didx" ELSE "hirc"
    /\ UNCHANGED <<hvars, rvars, pvars, inputs, parsed, catalog, marks, lists, mixer_i, idx, hirc_log, padding_written>>

\* ------------------------------- lines 126-138: DIDX reserved, DATA begun
\* Variant of DidxSectionSize that counts the stored lines, not the keys.
DidxSectionSizeOfStored(lookup) ==
    12 * Len(StoredWems(in_sfx_wems, in_bgm_wems, exclude_bgm))

\* Line 127.
DidxSectionSize(lookup) == 12 * Len(lookup)

BeginMedia ==
    /\ pc = "didx"
    /\ LET didx_section_size == DidxSectionSize(media_file_lookup)
           b1 == FileWrite(bnk_bytes, bnk_pos, TagDIDX \o IntToBytes(didx_section_size))
           p1 == bnk_pos + 8
           p2 == p1 + didx_section_size          \* seek(didx_section_size, 1)
           b2 == FileWrite(b1, p2, TagDATA)
           b3 == FileWrite(b2, p2 + 4, IntToBytes(0))
       IN  /\ didx_return_offset' = p1
           /\ data_size_offset' = p2 + 4
           /\ bnk_bytes' = b3
           /\ bnk_pos' = p2 + 8
    /\ wem_offset' = 0
    /\ idx' = 1
    /\ pc' = "data"
    /\ UNCHANGED <<hvars, rvars, pvars, inputs, parsed, catalog, HIRC_len_location, lists, mixer_i, hirc_log, padding_written>>

\* ------------------------------------------- lines 139-150: the DATA loop
\* The number of zero bytes written ahead of a clip at a running offset
\* that is no multiple of 8 (lines 142-144).
PadLen(offset) == offset % 8

\* Variant that records the end of the clip as its offset.
SetRealizedAtEnd(d, key, offset, size) ==
    [i \in 1..Len(d) |->
        IF d[i].hash = key THEN [d[i] EXCEPT !.offset = offset + size, !.size = size]
        ELSE d[i]]

\* Variant that sets the offset and size of every entry of the dict.
SetRealizedEvery(d, key, offset, size) ==
    [i \in 1..Len(d) |-> [d[i] EXCEPT !.offset = offset, !.size = size]]

\* media_entry.offset = offset; media_entry.size = size, on the entry of key.
SetRealized(d, key, offset, size) ==
    [i \in 1..Len(d) |->
        IF d[i].hash = key THEN [d[i] EXCEPT !.offset = offset, !.size = size]
        ELSE d[i]]

\* Variant of WemFilesAt where a file found before can have changed.
WemFilesAnyAt(path) == {NoFile} \cup {File(ClipData(path, n)) : n \in 0..MaxClipLen}

\* The files open() can find at path: the file found there before, or else
\* none or one of 0..MaxClipLen bytes.
WemFilesAt(path) ==
    IF wem_files[path].exists THEN {wem_files[path]}
    ELSE {NoFile} \cup {File(ClipData(path, n)) : n \in 0..MaxClipLen}

\* Variant that passes over a missing file and goes on with the next clip.
WriteWemSkipMissing ==
    /\ pc = "data"
    /\ idx <= Len(sorted_media_hashes)
    /\ LET media_hash == sorted_media_hashes[idx]
           media_entry == DictGet(media_file_lookup, media_hash)
           padded == (wem_offset % 8) # 0
           pad == IF padded THEN Zeros(PadLen(wem_offset)) ELSE <<>>
           offset == IF padded THEN wem_offset + PadLen(wem_offset) ELSE wem_offset
           b1 == FileWrite(bnk_bytes, bnk_pos, pad)
           p1 == bnk_pos + Len(pad)
       IN  \E wem \in WemFilesAt(media_entry.wem_filename) :
              /\ bnk_bytes' = FileWrite(b1, p1, wem.data)
              /\ bnk_pos' = p1 + Len(wem.data)
              /\ media_file_lookup' =
                     SetRealized(media_file_lookup, media_hash, offset, Len(wem.data))
              /\ wem_offset' = offset + Len(wem.data)
              /\ padding_written' = padding_written + Len(pad)
              /\ wem_files' = [wem_files EXCEPT ![media_entry.wem_filename] = wem]
              /\ idx' = idx + 1
              /\ pc' = "data"
    /\ UNCHANGED <<hvars, rvars, pvars, exclude_bgm, lines_read, invalid_read, wem_table, parsed,
                   sorted_media_hashes,
                   didx_return_offset, data_size_offset, HIRC_len_location, lists,
                   mixer_i, hirc_log>>

\* One iteration: padding, then the clip; open() of a missing file raises.
WriteWem ==
    /\ pc = "data"
    /\ idx <= Len(sorted_media_hashes)
    /\ LET media_hash == sorted_media_hashes[idx]
           media_entry == DictGet(media_file_lookup, media_hash)
           padded == (wem_offset % 8) # 0
           pad == IF padded THEN Zeros(PadLen(wem_offset)) ELSE <<>>
           offset == IF padded THEN wem_offset + PadLen(wem_offset) ELSE wem_offset
           b1 == FileWrite(bnk_bytes, bnk_pos, pad)
           p1 == bnk_pos + Len(pad)
       IN  \E wem \in WemFilesAt(media_entry.wem_filename) :
              IF ~wem.exists
              THEN /\ bnk_bytes' = b1
                   /\ bnk_pos' = p1
                   /\ wem_offset' = offset
                   /\ padding_written' = padding_written + Len(pad)
                   /\ pc' = "crashed"
                   /\ UNCHANGED <<media_file_lookup, idx, wem_files>>
              ELSE /\ bnk_bytes' = FileWrite(b1, p1, wem.data)
                   /\ bnk_pos' = p1 + Len(wem.data)
                   /\ media_file_lookup' =
                          SetRealized(media_file_lookup, media_hash, offset, Len(wem.data))
                   /\ wem_offset' = offset + Len(wem.data)
                   /\ padding_written' = padding_written + Len(pad)
                   /\ wem_files' = [wem_files EXCEPT ![media_entry.wem_filename] = wem]
                   /\ idx' = idx + 1
                   /\ pc' = "data"
    /\ UNCHANGED <<hvars, rvars, pvars, exclude_bgm, lines_read, invalid_read, wem_table, parsed,
                   sorted_media_hashes,
                   didx_return_offset, data_size_offset, HIRC_len_location, lists,
                   mixer_i, hirc_log>>

\* ------------------------- lines 152-156: the DATA length, and the seek back
PatchDataSize ==
    /\ pc = "data"
    /\ idx > Len(sorted_media_hashes)
    /\ bnk_bytes' = FileWrite(bnk_bytes, data_size_offset, IntToBytes(wem_offset))
    /\ bnk_pos' = didx_return_offset
    /\ idx' = 1
    /\ pc' = "media_headers"
    /\ UNCHANGED <<hvars, rvars, pvars, inputs, parsed, catalog, marks, lists, mixer_i, hirc_log, padding_written>>

\* ---------------------------------- lines 159-163: one clip-index entry
\* Variant of MediaHeader with size and offset in the other order.
MediaHeaderSizeFirst(media_entry) ==
    HashToBytes(media_entry.hash) \o IntToBytes(media_entry.size)
        \o IntToBytes(media_entry.offset)

MediaHeader(media_entry) ==
    HashToBytes(media_entry.hash) \o IntToBytes(media_entry.offset)
        \o IntToBytes(media_entry.size)

WriteMediaHeader ==
    /\ pc = "media_headers"
    /\ idx <= Len(sorted_media_hashes)
    /\ LET media_entry == DictGet(media_file_lookup, sorted_media_hashes[idx])
       IN  /\ bnk_bytes' = FileWrite(bnk_bytes, bnk_pos, MediaHeader(media_entry))
           /\ bnk_pos' = bnk_pos + 12
    /\ idx' = idx + 1
    /\ UNCHANGED <<hvars, rvars, pvars, inputs, parsed, catalog, marks, lists, mixer_i, pc, hirc_log, padding_written>>

\* ------------------------------------------------ line 166: seek(0, 2)
\* Variant that leaves the position behind the last clip-index entry.
SeekEndStay ==
    /\ pc = "media_headers"
    /\ idx > Len(sorted_media_hashes)
    /\ pc' = "hirc"
    /\ UNCHANGED <<hvars, rvars, pvars, inputs, parsed, catalog, file, marks, lists, mixer_i,
                   idx, hirc_log, padding_written>>

SeekEnd ==
    /\ pc = "media_headers"
    /\ idx > Len(sorted_media_hashes)
    /\ bnk_pos' = Len(bnk_bytes)
    /\ pc' = "hirc"
    /\ UNCHANGED <<hvars, rvars, pvars, inputs, parsed, catalog, bnk_bytes, marks, lists, mixer_i,
                   idx, hirc_log, padding_written>>

\* --------------------------------------- lines 169-203: the HIRC header
\* Variant of hirc_entry_count with four objects per BGM clip.
hirc_entry_count_four_per_bgm(sfx, bgm) ==
    (IF Len(sfx) > 0 THEN 1 ELSE 0) + (IF Len(bgm) > 0 THEN 1 ELSE 0)
        + (1 + 2) * Len(sfx) + 4 * Len(bgm)

\* Lines 172-177.
hirc_entry_count(sfx, bgm) ==
    (IF Len(sfx) > 0 THEN 1 ELSE 0) + (IF Len(bgm) > 0 THEN 1 ELSE 0)
        + (1 + 2) * Len(sfx) + (1 + 4) * Len(bgm)

SoundEntry(wem_filename, wem_type) ==
    [hash |-> compute_hash(wem_filename \o SuffixSound),
     wem_hash |-> compute_hash(wem_filename),
     wem_type |-> wem_type]

EventEntry(wem_filename, wem_type) ==
    [hash |-> compute_hash(wem_filename \o SuffixPlayEvent),
     wem_filename |-> wem_filename,
     wem_type |-> wem_type]

\* Variant of SoundEntryList that leaves the BGM clips out under exclude_bgm.
SoundEntryListOfStored(sfx, bgm) ==
    LET kept == IF exclude_bgm THEN <<>> ELSE bgm
        list == [i \in 1..Len(sfx) |-> SoundEntry(sfx[i], StrSFX)]
                    \o [i \in 1..Len(kept) |-> SoundEntry(kept[i], StrBGM)]
    IN  SortedBy(list, [i \in 1..Len(list) |-> list[i].hash])

\* Variant that leaves the list in the order of the two loops, unsorted.
SoundEntryListUnsorted(sfx, bgm) ==
    [i \in 1..Len(sfx) |-> SoundEntry(sfx[i], StrSFX)]
        \o [i \in 1..Len(bgm) |-> SoundEntry(bgm[i], StrBGM)]

\* Lines 181-196.
SoundEntryList(sfx, bgm) ==
    LET list == [i \in 1..Len(sfx) |-> SoundEntry(sfx[i], StrSFX)]
                    \o [i \in 1..Len(bgm) |-> SoundEntry(bgm[i], StrBGM)]
    IN  SortedBy(list, [i \in 1..Len(list) |-> list[i].hash])

\* Lines 199-203.
MixerOrder ==
    LET list == << <<compute_hash(bnk_sfx_audio_mixer), StrSFX>>,
                   <<compute_hash(bnk_bgm_audio_mixer), StrBGM>> >>
    IN  SortedBy(list, [i \in 1..Len(list) |-> list[i][1]])

\* Variant that leaves the list in the order of the two loops, unsorted.
EventEntryListUnsorted(sfx, bgm) ==
    [i \in 1..Len(sfx) |-> EventEntry(sfx[i], StrSFX)]
        \o [i \in 1..Len(bgm) |-> EventEntry(bgm[i], StrBGM)]

\* Lines 418-433.
EventEntryList(sfx, bgm) ==
    LET list == [i \in 1..Len(sfx) |-> EventEntry(sfx[i], StrSFX)]
                    \o [i \in 1..Len(bgm) |-> EventEntry(bgm[i], StrBGM)]
    IN  SortedBy(list, [i \in 1..Len(list) |-> list[i].hash])

WriteHIRCHeader ==
    /\ pc = "hirc"
    /\ bnk_bytes' = FileWrite(bnk_bytes, bnk_pos,
           TagHIRC \o IntToBytes(0)
               \o IntToBytes(hirc_entry_count(in_sfx_wems, in_bgm_wems)))
    /\ HIRC_len_location' = bnk_pos + 4
    /\ bnk_pos' = bnk_pos + 12
    /\ sound_entry_list' = SoundEntryList(in_sfx_wems, in_bgm_wems)
    /\ mixer_order' = MixerOrder
    /\ mixer_i' = 1
    /\ idx' = 1
    /\ pc' = "mixers"
    /\ UNCHANGED <<hvars, rvars, pvars, inputs, parsed, catalog, didx_return_offset, data_size_offset,
                   wem_offset, event_entry_list, hirc_log, padding_written>>

\* ------------------------------------------- lines 205-415: the mixer loop
\* A record written at file offset at, as the history keeps it.
Logged(kind, id, at, rec) == [kind |-> kind, id |-> id, at |-> at, len |-> Len(rec)]

\* list(filter(lambda x: x.wem_type == mixer_type, sound_entry_list))
MixerSounds(mixer_type) ==
    SelectSeq(sound_entry_list, LAMBDA x : x.wem_type = mixer_type)

\* Variant that lists the sounds from the last to the first.
ChildBytesReversed(sounds) ==
    [i \in 1..(4 * Len(sounds)) |->
        HashToBytes(sounds[Len(sounds) - ((i - 1) \div 4)].hash)[((i - 1) % 4) + 1]]

\* The hashes of the sounds, four bytes each, one after the other.
ChildBytes(sounds) ==
    [i \in 1..(4 * Len(sounds)) |->
        HashToBytes(sounds[((i - 1) \div 4) + 1].hash)[((i - 1) % 4) + 1]]

SfxSoundTail == <<0, 0, 0, 0, 0, 0, 0, 0, 0, 0, 1, 1, 0, 0, 0, 0, 0, 0, 0>>
BgmSoundTail ==
    <<0, 1, 58, 0, 0, 0, 0, 0, 0, 0, 0, 0, 0, 0, 0, 1, 0, 0, 0, 0, 0, 0, 0, 0>>
SfxMixerTail ==
    <<0, 2, 0, 7, 0, 0, 32, 64, 0, 0, 112, 66, 0, 3, 8, 0, 0, 0, 0, 0, 0, 1, 0, 0,
      0, 0, 0, 0, 0, 0>>
BgmMixerTail ==
    <<0, 1, 0, 0, 0, 32, 192, 0, 3, 8, 0, 0, 0, 0, 0, 0, 1, 0, 0, 0, 0, 0, 0, 0, 0>>

\* Lines 214-257: CAkSound (sfx).
SfxSoundRecord(sound_entry, mixer_hash, size) ==
    <<2, 50, 0, 0, 0>> \o HashToBytes(sound_entry.hash) \o <<1, 0, 2, 0, 0>>
        \o HashToBytes(sound_entry.wem_hash) \o IntToBytes(size)
        \o <<0, 0, 0, 0, 0, 0>> \o IntToBytes(0) \o HashToBytes(mixer_hash)
        \o SfxSoundTail

\* Variant that declares the length of a mixer of one child.
SfxMixerRecordOneChildLen(mixer_hash, sounds) ==
    <<7>> \o IntToBytes(51 + 4) \o HashToBytes(mixer_hash)
        \o <<0, 0, 0, 0, 0>> \o IntToBytes(1584861537) \o IntToBytes(0)
        \o SfxMixerTail \o IntToBytes(Len(sounds)) \o ChildBytes(sounds)

\* Lines 259-307: CAkActorMixer (sfx).
SfxMixerRecord(mixer_hash, sounds) ==
    <<7>> \o IntToBytes(51 + Len(sounds) * 4) \o HashToBytes(mixer_hash)
        \o <<0, 0, 0, 0, 0>> \o IntToBytes(1584861537) \o IntToBytes(0)
        \o SfxMixerTail \o IntToBytes(Len(sounds)) \o ChildBytes(sounds)

\* Lines 311-362: CAkSound (bgm).
BgmSoundRecord(sound_entry, mixer_hash, size) ==
    <<2, 55, 0, 0, 0>> \o HashToBytes(sound_entry.hash) \o <<1, 0, 2, 0, 2>>
        \o HashToBytes(sound_entry.wem_hash) \o IntToBytes(size)
        \o <<0, 0, 0, 0, 0, 0>> \o IntToBytes(0) \o HashToBytes(mixer_hash)
        \o BgmSoundTail

\* Lines 364-415: CAkActorMixer (bgm).
BgmMixerRecord(mixer_hash, sounds) ==
    <<7>> \o IntToBytes(46 + Len(sounds) * 4) \o HashToBytes(mixer_hash)
        \o <<0, 0, 0, 0, 0>> \o IntToBytes(0) \o IntToBytes(289663270)
        \o BgmMixerTail \o IntToBytes(Len(sounds)) \o ChildBytes(sounds)

\* Line 208-209: a mixer without sounds is passed over.
SkipMixer ==
    /\ pc = "mixers"
    /\ mixer_i <= Len(mixer_order)
    /\ Len(MixerSounds(mixer_order[mixer_i][2])) = 0
    /\ mixer_i' = mixer_i + 1
    /\ idx' = 1
    /\ UNCHANGED <<hvars, rvars, pvars, inputs, parsed, catalog, file, marks, lists, pc, hirc_log, padding_written>>

\* One iteration of the loop of line 212.  A hash that is no key of
\* media_file_lookup raises KeyError at line 222.
WriteSfxSound ==
    /\ pc = "mixers"
    /\ mixer_i <= Len(mixer_order)
    /\ mixer_order[mixer_i][2] = StrSFX
    /\ idx <= Len(MixerSounds(StrSFX))
    /\ LET sound_entry == MixerSounds(StrSFX)[idx]
           mixer_hash == mixer_order[mixer_i][1]
       IN  IF ~DictHas(media_file_lookup, sound_entry.wem_hash)
           THEN /\ bnk_bytes' = FileWrite(bnk_bytes, bnk_pos,
                        <<2, 50, 0, 0, 0>> \o HashToBytes(sound_entry.hash)
                            \o <<1, 0, 2, 0, 0>> \o HashToBytes(sound_entry.wem_hash))
                /\ bnk_pos' = bnk_pos + 18
                /\ pc' = "crashed"
                /\ UNCHANGED <<idx, hirc_log>>
           ELSE LET rec == SfxSoundRecord(sound_entry, mixer_hash,
                               DictGet(media_file_lookup, sound_entry.wem_hash).size)
                IN  /\ bnk_bytes' = FileWrite(bnk_bytes, bnk_pos, rec)
                    /\ bnk_pos' = bnk_pos + Len(rec)
                    /\ hirc_log' = Append(hirc_log,
                           Logged("sfx_sound", sound_entry.hash, bnk_pos, rec))
                    /\ idx' = idx + 1
                    /\ pc' = "mixers"
    /\ UNCHANGED <<hvars, rvars, pvars, inputs, parsed, catalog, marks, lists, mixer_i, padding_written>>

WriteSfxMixer ==
    /\ pc = "mixers"
    /\ mixer_i <= Len(mixer_order)
    /\ mixer_order[mixer_i][2] = StrSFX
    /\ Len(MixerSounds(StrSFX)) > 0
    /\ idx > Len(MixerSounds(StrSFX))
    /\ LET mixer_hash == mixer_order[mixer_i][1]
           rec == SfxMixerRecord(mixer_hash, MixerSounds(StrSFX))
       IN  /\ bnk_bytes' = FileWrite(bnk_bytes, bnk_pos, rec)
           /\ bnk_pos' = bnk_pos + Len(rec)
           /\ hirc_log' = Append(hirc_log, Logged("sfx_mixer", mixer_hash, bnk_pos, rec))
    /\ mixer_i' = mixer_i + 1
    /\ idx' = 1
    /\ UNCHANGED <<hvars, rvars, pvars, inputs, parsed, catalog, marks, lists, pc, padding_written>>

PlaceholderSize == 1024

\* Variant of BgmSoundSize that writes the placeholder for every BGM sound.
BgmSoundSizePlaceholder(lookup, wem_hash) == PlaceholderSize

\* Lines 321-324: uSize of a BGM sound.
BgmSoundSize(lookup, wem_hash) ==
    IF DictHas(lookup, wem_hash) THEN DictGet(lookup, wem_hash).size
    ELSE PlaceholderSize

\* One iteration of the loop of line 309.
WriteBgmSound ==
    /\ pc = "mixers"
    /\ mixer_i <= Len(mixer_order)
    /\ mixer_order[mixer_i][2] = StrBGM
    /\ idx <= Len(MixerSounds(StrBGM))
    /\ LET sound_entry == MixerSounds(StrBGM)[idx]
           mixer_hash == mixer_order[mixer_i][1]
           size == BgmSoundSize(media_file_lookup, sound_entry.wem_hash)
           rec == BgmSoundRecord(sound_entry, mixer_hash, size)
       IN  /\ bnk_bytes' = FileWrite(bnk_bytes, bnk_pos, rec)
           /\ bnk_pos' = bnk_pos + Len(rec)
           /\ hirc_log' = Append(hirc_log,
                  Logged("bgm_sound", sound_entry.hash, bnk_pos, rec))
    /\ idx' = idx + 1
    /\ UNCHANGED <<hvars, rvars, pvars, inputs, parsed, catalog, marks, lists, mixer_i, pc, padding_written>>

WriteBgmMixer ==
    /\ pc = "mixers"
    /\ mixer_i <= Len(mixer_order)
    /\ mixer_order[mixer_i][2] = StrBGM
    /\ Len(MixerSounds(StrBGM)) > 0
    /\ idx > Len(MixerSounds(StrBGM))
    /\ LET mixer_hash == mixer_order[mixer_i][1]
           rec == BgmMixerRecord(mixer_hash, MixerSounds(StrBGM))
       IN  /\ bnk_bytes' = FileWrite(bnk_bytes, bnk_pos, rec)
           /\ bnk_pos' = bnk_pos + Len(rec)
           /\ hirc_log' = Append(hirc_log, Logged("bgm_mixer", mixer_hash, bnk_pos, rec))
    /\ mixer_i' = mixer_i + 1
    /\ idx' = 1
    /\ UNCHANGED <<hvars, rvars, pvars, inputs, parsed, catalog, marks, lists, pc, padding_written>>

\* ------------------------------------------ lines 418-433: the event list
SortEvents ==
    /\ pc = "mixers"
    /\ mixer_i > Len(mixer_order)
    /\ event_entry_list' = EventEntryList(in_sfx_wems, in_bgm_wems)
    /\ idx' = 1
    /\ pc' = "events"
    /\ UNCHANGED <<hvars, rvars, pvars, inputs, parsed, catalog, file, marks, sound_entry_list,
                   mixer_order, mixer_i, hirc_log, padding_written>>

\* ------------------------------------------- lines 435-528: the event loop
\* Variant of PlayRecord whose target is the clip id, not the sound id.
PlayRecordTargetsClip(wem_filename) ==
    <<3, 18, 0, 0, 0>> \o HashToBytes(compute_hash(wem_filename \o SuffixPlay))
        \o <<3, 4>> \o HashToBytes(compute_hash(wem_filename))
        \o <<0, 0, 0, 4>> \o HashToBytes(compute_hash(bnk_out))

\* Lines 440-454 and 487-501: CAkActionPlay.
PlayRecord(wem_filename) ==
    <<3, 18, 0, 0, 0>> \o HashToBytes(compute_hash(wem_filename \o SuffixPlay))
        \o <<3, 4>> \o HashToBytes(compute_hash(wem_filename \o SuffixSound))
        \o <<0, 0, 0, 4>> \o HashToBytes(compute_hash(bnk_out))

\* Lines 456-460: CAkEvent (sfx).
SfxEventRecord(event_entry) ==
    <<4, 9, 0, 0, 0>> \o HashToBytes(event_entry.hash) \o <<1>>
        \o HashToBytes(compute_hash(event_entry.wem_filename \o SuffixPlay))

\* Lines 464-485: CAkActionStop 1.
Stop1Record(wem_filename) ==
    <<3, 21, 0, 0, 0>> \o HashToBytes(compute_hash(wem_filename \o SuffixStop1))
        \o <<2, 1>> \o IntToBytes(289663270)
        \o <<0, 1, 16, 244, 1, 0, 0, 0, 4, 6, 0>>

\* Lines 503-520: CAkActionStop2.
Stop2Record(wem_filename) ==
    <<3, 16, 0, 0, 0>> \o HashToBytes(compute_hash(wem_filename \o SuffixStop2))
        \o <<2, 1>> \o IntToBytes(920168426)
        \o <<0, 0, 0, 4, 6, 0>>

\* Variant of BgmEventRecord that lists the play action first.
BgmEventRecordPlayFirst(event_entry) ==
    <<4, 17, 0, 0, 0>> \o HashToBytes(event_entry.hash) \o <<3>>
        \o HashToBytes(compute_hash(event_entry.wem_filename \o SuffixPlay))
        \o HashToBytes(compute_hash(event_entry.wem_filename \o SuffixStop1))
        \o HashToBytes(compute_hash(event_entry.wem_filename \o SuffixStop2))

\* Lines 522-528: CAkEvent (bgm).
BgmEventRecord(event_entry) ==
    <<4, 17, 0, 0, 0>> \o HashToBytes(event_entry.hash) \o <<3>>
        \o HashToBytes(compute_hash(event_entry.wem_filename \o SuffixStop1))
        \o HashToBytes(compute_hash(event_entry.wem_filename \o SuffixPlay))
        \o HashToBytes(compute_hash(event_entry.wem_filename \o SuffixStop2))

WriteSfxEvent ==
    /\ pc = "events"
    /\ idx <= Len(event_entry_list)
    /\ event_entry_list[idx].wem_type = StrSFX
    /\ LET event_entry == event_entry_list[idx]
           play == PlayRecord(event_entry.wem_filename)
           event == SfxEventRecord(event_entry)
       IN  /\ bnk_bytes' = FileWrite(bnk_bytes, bnk_pos, play \o event)
           /\ bnk_pos' = bnk_pos + Len(play) + Len(event)
           /\ hirc_log' = hirc_log \o
                  << Logged("play", compute_hash(event_entry.wem_filename \o SuffixPlay),
                            bnk_pos, play),
                     Logged("sfx_event", event_entry.hash, bnk_pos + Len(play), event) >>
    /\ idx' = idx + 1
    /\ UNCHANGED <<hvars, rvars, pvars, inputs, parsed, catalog, marks, lists, mixer_i, pc, padding_written>>

WriteBgmEvent ==
    /\ pc = "events"
    /\ idx <= Len(event_entry_list)
    /\ event_entry_list[idx].wem_type = StrBGM
    /\ LET event_entry == event_entry_list[idx]
           stop1 == Stop1Record(event_entry.wem_filename)
           play == PlayRecord(event_entry.wem_filename)
           stop2 == Stop2Record(event_entry.wem_filename)
           event == BgmEventRecord(event_entry)
           p1 == bnk_pos + Len(stop1)
           p2 == p1 + Len(play)
           p3 == p2 + Len(stop2)
       IN  /\ bnk_bytes' = FileWrite(bnk_bytes, bnk_pos, stop1 \o play \o stop2 \o event)
           /\ bnk_pos' = p3 + Len(event)
           /\ hirc_log' = hirc_log \o
                  << Logged("stop1", compute_hash(event_entry.wem_filename \o SuffixStop1),
                            bnk_pos, stop1),
                     Logged("play", compute_hash(event_entry.wem_filename \o SuffixPlay),
                            p1, play),
                     Logged("stop2", compute_hash(event_entry.wem_filename \o SuffixStop2),
                            p2, stop2),
                     Logged("bgm_event", event_entry.hash, p3, event) >>
    /\ idx' = idx + 1
    /\ UNCHANGED <<hvars, rvars, pvars, inputs, parsed, catalog, marks, lists, mixer_i, pc, padding_written>>

\* ------------------------------------- lines 530-532: the HIRC length
\* Variant of HircLength that counts the length field too.
HircLengthWithField(end, location) == end - location

\* Line 532.
HircLength(end, location) == end - location - 4

PatchHIRC ==
    /\ pc = "events"
    /\ idx > Len(event_entry_list)
    /\ LET HIRC_end_location == bnk_pos
       IN  bnk_bytes' = FileWrite(bnk_bytes, HIRC_len_location,
               IntToBytes(HircLength(HIRC_end_location, HIRC_len_location)))
    /\ bnk_pos' = HIRC_len_location + 4
    /\ pc' = "done"
    /\ UNCHANGED <<hvars, rvars, pvars, inputs, parsed, catalog, marks, lists, mixer_i, idx, hirc_log, padding_written>>

\* ------------------------------------------------------------------ Spec
Next ==
    \/ ReadLine
    \/ EndOfTable
    \/ BuildCatalog
    \/ WriteBKHD
    \/ BeginMedia
    \/ WriteWem
    \/ PatchDataSize
    \/ WriteMediaHeader
    \/ SeekEnd
    \/ WriteHIRCHeader
    \/ SkipMixer
    \/ WriteSfxSound
    \/ WriteSfxMixer
    \/ WriteBgmSound
    \/ WriteBgmMixer
    \/ SortEvents
    \/ WriteSfxEvent
    \/ WriteBgmEvent
    \/ PatchHIRC

Spec == Init /\ [][Next]_vars

\* ============================================================== TwinSpec
\* make_bnk run twice over the same table, the same clip files and the same
\* arguments; the second run finds the output file of the first.
TwinInit ==
    /\ HashIdle
    /\ PckIdle
    /\ exclude_bgm \in BOOLEAN
    /\ lines_read = 0
    /\ invalid_read = 0
    /\ wem_table = <<>>
    /\ wem_files = [p \in Paths |-> NoFile]
    /\ pc = "read_table"
    /\ in_sfx_wems = <<>> /\ in_bgm_wems = <<>>
    /\ media_file_lookup = <<>> /\ sorted_media_hashes = <<>>
    /\ bnk_bytes = <<>> /\ bnk_pos = 0
    /\ didx_return_offset = -1 /\ data_size_offset = -1
    /\ wem_offset = -1 /\ HIRC_len_location = -1
    /\ sound_entry_list = <<>> /\ mixer_order = <<>> /\ event_entry_list = <<>>
    /\ mixer_i = 0 /\ idx = 0
    /\ hirc_log = <<>>
    /\ padding_written = 0
    /\ run = 1 /\ first_out = <<>>

\* The script is started again after a run that finished: every variable of
\* the program is fresh; the disk keeps the table, the clips and the output
\* file, and the arguments are the same.
Rerun ==
    /\ run = 1
    /\ pc = "done"
    /\ run' = 2
    /\ first_out' = bnk_bytes
    /\ lines_read' = 0
    /\ invalid_read' = 0
    /\ pc' = "read_table"
    /\ in_sfx_wems' = <<>> /\ in_bgm_wems' = <<>>
    /\ media_file_lookup' = <<>> /\ sorted_media_hashes' = <<>>
    /\ bnk_pos' = 0
    /\ didx_return_offset' = -1 /\ data_size_offset' = -1
    /\ wem_offset' = -1 /\ HIRC_len_location' = -1
    /\ sound_entry_list' = <<>> /\ mixer_order' = <<>> /\ event_entry_list' = <<>>
    /\ mixer_i' = 0 /\ idx' = 0
    /\ hirc_log' = <<>>
    /\ padding_written' = 0
    /\ UNCHANGED <<hvars, pvars, exclude_bgm, wem_table, wem_files, bnk_bytes>>

TwinNext == Next \/ Rerun

TwinSpec == TwinInit /\ [][TwinNext]_vars

\* ============================================================== PckSpec
\* make_pck.py and make_pck_set_id.py: the two scripts differ in the parse
\* loop only; the rest is the same code over media_file_lookup or
\* wem_replacements (pck_lookup).
StrJPN == <<74, 80, 78>>
StrCHN == <<67, 72, 78>>
StrENG == <<69, 78, 71>>
\* Language tokens: "ENG", "7", and "xyz" that is neither a number nor a name.
PckTokens == {StrENG, <<55>>, <<120, 121, 122>>}
SetIdTokens == {StrENG, <<120, 121, 122>>}
\* The id column of make_pck_set_id, int(line_split[1]), as <<v \div 65536,
\* v % 65536>>: -1, 7, 65536 and 4294967296.
SetIds == {<<-1, 65535>>, <<0, 7>>, <<1, 0>>, <<65536, 0>>}
SetIdPaths == {<<97>>, <<99>>}
PckLines == PckTokens \X Paths
SetIdLines == SetIdTokens \X SetIds \X SetIdPaths
\* Sizes, in bytes, of the .wem files a pck builder finds.
PckClipLens == {0, 2}

\* to_bytes(length = 4) raises OverflowError outside 0 .. 2^32 - 1.
FitsU32(h) == h[1] \in 0..65535

\* str.isnumeric() on the tokens of the table.
IsNumeric(s) == Len(s) > 0 /\ \A i \in 1..Len(s) : s[i] \in 48..57

\* int() of a string of decimal digits.
RECURSIVE IntOf(_)
IntOf(s) ==
    IF s = <<>> THEN 0
    ELSE 10 * IntOf(SubSeq(s, 1, Len(s) - 1)) + (s[Len(s)] - 48)

langauge_id_lookup == (StrSFX :> 0) @@ (StrJPN :> 1) @@ (StrCHN :> 2) @@ (StrENG :> 3)

\* Variant that falls back to language 0 for an unknown token.
LanguageIdOrZero(language_id_str, current) ==
    IF IsNumeric(language_id_str) THEN IntOf(language_id_str)
    ELSE IF language_id_str \in DOMAIN langauge_id_lookup
         THEN langauge_id_lookup[language_id_str]
         ELSE 0

\* The value of language_id after the if/else of one line: an unknown token
\* is reported and the variable keeps what it held.
LanguageIdAfter(language_id_str, current) ==
    IF IsNumeric(language_id_str) THEN IntOf(language_id_str)
    ELSE IF language_id_str \in DOMAIN langauge_id_lookup
         THEN langauge_id_lookup[language_id_str]
         ELSE current

PckMediaEntry(hash, wem_filename, lang, offset, size) ==
    [hash |-> hash, language_id |-> lang, wem_filename |-> wem_filename,
     offset |-> offset, size |-> size]

\* Variant that keeps the keys in insertion order.
pck_HashesUnsorted(keys) == keys

\* wem_hashes = list(keys); wem_hashes.sort()
pck_SortedHashes(keys) == SortedBy(keys, keys)

AKPK == <<65, 75, 80, 75>>
PckHeaderLen == 140
PckEntryLen == 20
\* PCK version, language map length, banks table length.
PckHeaderPart1 == <<1, 0, 0, 0, 104, 0, 0, 0, 4, 0, 0, 0>>
\* externalLUT length, language map, banks table.
PckHeaderPart2 ==
    <<4, 0, 0, 0,
      4, 0, 0, 0,
      36, 0, 0, 0, 2, 0, 0, 0,
      52, 0, 0, 0, 3, 0, 0, 0,
      76, 0, 0, 0, 1, 0, 0, 0,
      94, 0, 0, 0, 0, 0, 0, 0,
      99, 0, 104, 0, 105, 0, 110, 0, 101, 0, 115, 0, 101, 0, 0, 0,
      101, 0, 110, 0, 103, 0, 108, 0, 105, 0, 115, 0, 104, 0, 40, 0, 117, 0, 115, 0, 41, 0, 0, 0,
      106, 0, 97, 0, 112, 0, 97, 0, 110, 0, 101, 0, 115, 0, 101, 0, 0, 0,
      115, 0, 102, 0, 120, 0, 0, 0,
      0, 0,
      0, 0, 0, 0>>

PckInit ==
    /\ HashIdle
    /\ BankIdle
    /\ pck_script \in {"make_pck", "make_pck_set_id"}
    /\ pck_pc = "read_table"
    /\ pck_table = <<>>
    /\ language_id = NoLanguageId
    /\ pck_lookup = <<>>
    /\ wem_hashes = <<>>
    /\ pck_wems = [path \in Paths |-> NoFile]
    /\ pck_bytes = <<>> /\ pck_pos = 0 /\ pck_wem_offset = 0 /\ pck_idx = 0

\* make_pck.py, one iteration of the parse loop: the id is the hash of the
\* path; a path whose hash is in the dict ends the run with exit(1); the
\* MediaEntry(...) call reads language_id, a NameError if no line set it.
ReadPckLine ==
    /\ pck_script = "make_pck"
    /\ pck_pc = "read_table"
    /\ Len(pck_table) < MaxPckLines
    /\ \E line_split \in PckLines :
          LET language_id_str == line_split[1]
              wem_path == line_split[2]
              hash == pck_compute_hash(wem_path)
              lang == LanguageIdAfter(language_id_str, language_id)
          IN  /\ pck_table' = Append(pck_table, line_split)
              /\ language_id' = lang
              /\ IF DictHas(pck_lookup, hash)
                 THEN pck_pc' = "exit" /\ UNCHANGED pck_lookup
                 ELSE IF lang = NoLanguageId
                 THEN pck_pc' = "crashed" /\ UNCHANGED pck_lookup
                 ELSE /\ pck_lookup' = DictSet(pck_lookup, hash,
                                           PckMediaEntry(hash, wem_path, lang, -1, -1))
                      /\ pck_pc' = "read_table"
    /\ UNCHANGED <<hvars, bvars, rvars, pck_script, wem_hashes, pck_wems,
                   pck_bytes, pck_pos, pck_wem_offset, pck_idx>>

\* make_pck_set_id.py, one iteration of the parse loop: the id is a column of
\* the line; an id the dict holds is reported and its entry replaced.
ReadSetIdLine ==
    /\ pck_script = "make_pck_set_id"
    /\ pck_pc = "read_table"
    /\ Len(pck_table) < MaxPckLines
    /\ \E line_split \in SetIdLines :
          LET language_id_str == line_split[1]
              hash == line_split[2]
              wem_path == line_split[3]
              lang == LanguageIdAfter(language_id_str, language_id)
          IN  /\ pck_table' = Append(pck_table, line_split)
              /\ language_id' = lang
              /\ IF lang = NoLanguageId
                 THEN pck_pc' = "crashed" /\ UNCHANGED pck_lookup
                 ELSE /\ pck_lookup' = DictSet(pck_lookup, hash,
                                           PckMediaEntry(hash, wem_path, lang, -1, -1))
                      /\ pck_pc' = "read_table"
    /\ UNCHANGED <<hvars, bvars, rvars, pck_script, wem_hashes, pck_wems,
                   pck_bytes, pck_pos, pck_wem_offset, pck_idx>>

\* End of the table: the keys are sorted, wem_offset = 0x8C + num_wem * 20.
PckEndOfTable ==
    /\ pck_pc = "read_table"
    /\ wem_hashes' = pck_SortedHashes(DictKeys(pck_lookup))
    /\ pck_wem_offset' = PckHeaderLen + Len(pck_lookup) * PckEntryLen
    /\ pck_pc' = "header"
    /\ UNCHANGED <<hvars, bvars, rvars, pck_script, pck_table, language_id, pck_lookup,
                   pck_wems, pck_bytes, pck_pos, pck_idx>>

\* open(pck_file, "wb"), the header up to the number of entries, and the seek
\* over the stream table to the place of the first clip.
PckWriteHeader ==
    /\ pck_pc = "header"
    /\ pck_bytes' = AKPK \o IntToBytes(pck_wem_offset) \o PckHeaderPart1
                      \o IntToBytes(Len(pck_lookup) * PckEntryLen) \o PckHeaderPart2
                      \o IntToBytes(Len(pck_lookup))
    /\ pck_pos' = pck_wem_offset
    /\ pck_idx' = 1
    /\ pck_pc' = "wems"
    /\ UNCHANGED <<hvars, bvars, rvars, pck_script, pck_table, language_id, pck_lookup,
                   wem_hashes, pck_wems, pck_wem_offset>>

\* The files the disk may hold at a path: what an earlier read found there.
PckFilesAt(path) ==
    IF pck_wems[path].exists THEN {pck_wems[path]}
    ELSE {NoFile} \cup {File(ClipData(path, n)) : n \in PckClipLens}

\* One iteration of the first loop: the clip is copied, its entry gets its
\* offset and size; open() of a missing file raises.
PckWriteWem ==
    /\ pck_pc = "wems"
    /\ pck_idx <= Len(wem_hashes)
    /\ LET hash == wem_hashes[pck_idx]
           media_entry == DictGet(pck_lookup, hash)
       IN  \E wem_file \in PckFilesAt(media_entry.wem_filename) :
              IF ~wem_file.exists
              THEN /\ pck_pc' = "crashed"
                   /\ UNCHANGED <<pck_lookup, pck_wems, pck_bytes, pck_pos,
                                  pck_wem_offset, pck_idx>>
              ELSE /\ pck_bytes' = FileWrite(pck_bytes, pck_pos, wem_file.data)
                   /\ pck_pos' = pck_pos + Len(wem_file.data)
                   /\ pck_lookup' = DictSet(pck_lookup, hash,
                                        [media_entry EXCEPT !.offset = pck_wem_offset,
                                                            !.size = Len(wem_file.data)])
                   /\ pck_wem_offset' = pck_wem_offset + Len(wem_file.data)
                   /\ pck_wems' = [pck_wems EXCEPT ![media_entry.wem_filename] = wem_file]
                   /\ pck_idx' = pck_idx + 1
                   /\ pck_pc' = "wems"
    /\ UNCHANGED <<hvars, bvars, rvars, pck_script, pck_table, language_id, wem_hashes>>

\* pck.seek(0x8C, 0)
PckSeekTable ==
    /\ pck_pc = "wems"
    /\ pck_idx > Len(wem_hashes)
    /\ pck_pos' = PckHeaderLen
    /\ pck_idx' = 1
    /\ pck_pc' = "entries"
    /\ UNCHANGED <<hvars, bvars, rvars, pck_script, pck_table, language_id, pck_lookup,
                   wem_hashes, pck_wems, pck_bytes, pck_wem_offset>>

\* One iteration of the second loop: id, 1, size, offset, language id; the
\* first to_bytes raises on an id outside 32 bits.
PckWriteEntry ==
    /\ pck_pc = "entries"
    /\ pck_idx <= Len(wem_hashes)
    /\ LET hash == wem_hashes[pck_idx]
           media_entry == DictGet(pck_lookup, hash)
       IN  IF ~FitsU32(hash)
           THEN /\ pck_pc' = "crashed"
                /\ UNCHANGED <<pck_bytes, pck_pos, pck_idx>>
           ELSE /\ pck_bytes' = FileWrite(pck_bytes, pck_pos,
                                    HashToBytes(hash) \o IntToBytes(1)
                                    \o IntToBytes(media_entry.size)
                                    \o IntToBytes(media_entry.offset)
                                    \o IntToBytes(media_entry.language_id))
                /\ pck_pos' = pck_pos + PckEntryLen
                /\ pck_idx' = pck_idx + 1
                /\ pck_pc' = "entries"
    /\ UNCHANGED <<hvars, bvars, rvars, pck_script, pck_table, language_id, pck_lookup,
                   wem_hashes, pck_wems, pck_wem_offset>>

\* The with block ends and closes the pck.
PckClose ==
    /\ pck_pc = "entries"
    /\ pck_idx > Len(wem_hashes)
    /\ pck_pc' = "done"
    /\ UNCHANGED <<hvars, bvars, rvars, pck_script, pck_table, language_id, pck_lookup,
                   wem_hashes, pck_wems, pck_bytes, pck_pos, pck_wem_offset, pck_idx>>

PckNext ==
    \/ ReadPckLine
    \/ ReadSetIdLine
    \/ PckEndOfTable
    \/ PckWriteHeader
    \/ PckWriteWem
    \/ PckSeekTable
    \/ PckWriteEntry
    \/ PckClose

PckSpec == PckInit /\ [][PckNext]_vars

\* ======================================================== claims: hashing
\* str.swapcase() on one code point of Alphabet.
SwapCaseChar(c) ==
    IF c \in 65..90 THEN c + 32
    ELSE IF c \in 97..122 THEN c - 32
    ELSE IF c = 305 THEN 73
    ELSE c

\* Every string got from s by changing some of its letters to the other case.
CaseVariants(s) ==
    {t \in [1..Len(s) -> Alphabet \cup {SwapCaseChar(c) : c \in Alphabet}] :
        \A i \in 1..Len(s) : t[i] \in {s[i], SwapCaseChar(s[i])}}

IsAscii(s) == \A i \in 1..Len(s) : s[i] < 128

\* C9 as stated: for every string, compute_hash gives the same value for the
\* string and for each of its re-casings.
C9_CaseInsensitiveEveryString ==
    h_pc = "done" => \A t \in CaseVariants(h_name) : compute_hash(t) = h_hash

\* C9 amended: for every string of ASCII characters, compute_hash gives the
\* same value for the string and for each of its re-casings.
C9_CaseInsensitiveAscii ==
    (h_pc = "done" /\ IsAscii(h_name)) =>
        \A t \in CaseVariants(h_name) : compute_hash(t) = h_hash

\* "Ab" has been hashed, and "aB" hashes to the same value.
C9_Witness ==
    /\ h_pc = "done"
    /\ h_name = <<65, 98>>
    /\ <<97, 66>> \in CaseVariants(h_name)
    /\ compute_hash(<<97, 66>>) = h_hash

\* The fold of C10, on numbers written as little-endian base-256 digits.
Digit(a, i) == IF i \in 1..Len(a) THEN a[i] ELSE 0

\* Column k of the schoolbook product of a and b.
RECURSIVE ColSum(_, _, _, _)
ColSum(a, b, k, i) ==
    IF i > k THEN 0
    ELSE Digit(a, i) * Digit(b, k + 1 - i) + ColSum(a, b, k, i + 1)

RECURSIVE MulDigits(_, _, _, _)
MulDigits(a, b, k, carry) ==
    IF k > Len(a) + Len(b) THEN <<>>
    ELSE LET t == ColSum(a, b, k, 1) + carry
         IN  <<t % 256>> \o MulDigits(a, b, k + 1, t \div 256)

\* Bit i (0 = lowest) of a natural number.
RECURSIVE Pow2(_)
Pow2(i) == IF i = 0 THEN 1 ELSE 2 * Pow2(i - 1)
Bit(n, i) == (n \div Pow2(i)) % 2

\* XOR of two numbers below 256, bit by bit.
RECURSIVE Xor8From(_, _, _)
Xor8From(a, b, i) ==
    IF i = 8 THEN 0
    ELSE (IF Bit(a, i) # Bit(b, i) THEN Pow2(i) ELSE 0) + Xor8From(a, b, i + 1)

\* accum -> ((accum * 16777619) XOR unit) mod 2^32, for a unit below 2^16;
\* 16777619 has the digits <<147, 1, 0, 1>>, and mod 2^32 keeps four digits.
FoldStep(accum, unit) ==
    LET product == MulDigits(accum, <<147, 1, 0, 1>>, 1, 0)
    IN  <<Xor8From(product[1], unit % 256, 0), Xor8From(product[2], unit \div 256, 0),
          product[3], product[4]>>

\* The left fold of FoldStep over units, from accum.
RECURSIVE FoldLeft(_, _)
FoldLeft(accum, units) ==
    IF units = <<>> THEN accum
    ELSE FoldStep(FoldLeft(accum, SubSeq(units, 1, Len(units) - 1)),
                  units[Len(units)])

\* The units the claim folds over: the code points of the name with the
\* ASCII capitals replaced by their small letters.
LowerCased(s) ==
    [i \in 1..Len(s) |-> IF s[i] >= 65 /\ s[i] <= 90 THEN s[i] + 32 ELSE s[i]]

\* The halves <<high, low>> of a number of four digits.
HalvesOf(d) == <<d[4] * 256 + d[3], d[2] * 256 + d[1]>>

\* C10: compute_hash(name) is the left fold of
\* accum -> ((accum * 16777619) XOR unit) mod 2^32 over the units of the
\* lower-cased name, from 2166136261 (digits <<197, 157, 28, 129>>); the
\* empty name hashes to 2166136261 = <<33052, 40389>>, every result lies in
\* [0, 2^32) (both halves in 0..65535), and "a" and "A" hash to
\* 84696446 = <<1292, 23934>>, "b" to 84696445 (the values Python computes).
C10_FoldFromBasis ==
    h_pc = "done" =>
        /\ h_hash \in (0..65535) \X (0..65535)
        /\ h_hash = HalvesOf(FoldLeft(<<197, 157, 28, 129>>, LowerCased(h_name)))
        /\ (h_name = <<>> => h_hash = <<33052, 40389>>)
        /\ (h_name \in {<<97>>, <<65>>} => h_hash = <<1292, 23934>>)
        /\ (h_name = <<98>> => h_hash = <<1292, 23933>>)

\* A two-unit name with a capital and a unit above 255 has been hashed.
C10_Witness ==
    /\ h_pc = "done"
    /\ h_name = <<65, 305>>
    /\ h_hash = HalvesOf(FoldLeft(<<197, 157, 28, 129>>, <<97, 305>>))

\* ================================================ claims: the written file
\* The output file as a reader finds it.  Byte i (from 0) of the file, or -1
\* beyond its end.
ByteAt(off) == IF off + 1 \in 1..Len(bnk_bytes) THEN bnk_bytes[off + 1] ELSE -1
TagAt(off) == <<ByteAt(off), ByteAt(off + 1), ByteAt(off + 2), ByteAt(off + 3)>>
\* A little-endian u32 below 2^31 at off, or -1 where the file holds none.
U32At(off) ==
    IF ByteAt(off + 3) \in 0..127
    THEN ByteAt(off) + 256 * ByteAt(off + 1) + 65536 * ByteAt(off + 2)
             + 16777216 * ByteAt(off + 3)
    ELSE -1
\* A little-endian u32 at off, as halves <<high, low>>.
HashAt(off) ==
    <<ByteAt(off + 3) * 256 + ByteAt(off + 2), ByteAt(off + 1) * 256 + ByteAt(off)>>

\* The script is past the media chunks: it writes HIRC, or is done.
PastMedia == pc \in {"hirc", "mixers", "events", "done"}

\* The chunk after the 32-byte bank header is DIDX.
HasDidx == TagAt(32) = TagDIDX
DidxLen == U32At(36)
\* Clip-index entry k (from 1): its offset in the file and its fields.
DidxEntryAt(k) == 40 + 12 * (k - 1)
DidxHash(k) == HashAt(DidxEntryAt(k))
DidxOffset(k) == U32At(DidxEntryAt(k) + 4)
DidxSize(k) == U32At(DidxEntryAt(k) + 8)
\* The clip-index entries written so far.
DidxWritten ==
    IF pc = "media_headers" THEN idx - 1
    ELSE IF PastMedia /\ HasDidx THEN Len(sorted_media_hashes)
    ELSE 0
\* The DATA chunk: its tag, its length field and its body.
DataTagAt == 40 + DidxLen
DataLen == U32At(DataTagAt + 4)
DataBodyAt == DataTagAt + 8

\* The paths that go into the catalog, in the order of the table.
Stored == StoredWems(in_sfx_wems, in_bgm_wems, exclude_bgm)

\* C1: the hash fields of the clip-index entries written are strictly
\* increasing from each entry to the next.
C1_DidxHashesAscending ==
    \A k \in 1..(DidxWritten - 1) : HashLess(DidxHash(k), DidxHash(k + 1))

\* Two clips were stored in descending order of hash ("a" then "c"), and
\* both entries are written.
C1_Witness ==
    /\ pc = "done"
    /\ Stored = << <<97>>, <<99>> >>
    /\ HashLess(compute_hash(<<99>>), compute_hash(<<97>>))
    /\ DidxWritten = 2
    /\ DidxHash(1) = compute_hash(<<99>>)
    /\ DidxHash(2) = compute_hash(<<97>>)

\* C2: when one path is stored twice, the script does not get past the
\* catalog: it ends with exit(1) and opens no output file.
HasDuplicate(list) == \E i, j \in 1..Len(list) : i < j /\ list[i] = list[j]
C2_DuplicateIsFatal ==
    (pc \notin {"read_table", "catalog"} /\ HasDuplicate(Stored)) => pc = "exit"

\* C3: every offset recorded for a clip, in its catalog entry and in its
\* clip-index entry, is a multiple of 8.
C3_OffsetsAligned ==
    /\ \A i \in 1..Len(media_file_lookup) :
           media_file_lookup[i].offset # -1 => media_file_lookup[i].offset % 8 = 0
    /\ \A k \in 1..DidxWritten : DidxOffset(k) % 8 = 0

\* C4: for every clip-index entry written, the bytes of the DATA body at
\* [offset, offset + size) are the bytes of the clip's source file.
C4_RoundTrip ==
    \A k \in 1..DidxWritten :
        /\ DictHas(media_file_lookup, DidxHash(k))
        /\ LET source == wem_files[DictGet(media_file_lookup, DidxHash(k)).wem_filename]
           IN  /\ source.exists
               /\ DidxSize(k) = Len(source.data)
               /\ \A j \in 1..Len(source.data) :
                      ByteAt(DataBodyAt + DidxOffset(k) + j - 1) = source.data[j]

\* Two clips are written, the second behind padding, and a clip of no bytes
\* is among them.
C4_Witness ==
    /\ pc = "done"
    /\ DidxWritten = 2
    /\ DidxOffset(2) > DidxOffset(1) + DidxSize(1)
    /\ DidxSize(2) > 0

C4_WitnessEmptyClip ==
    /\ pc = "done"
    /\ DidxWritten = 2
    /\ DidxSize(1) = 0

\* The sum of the sizes of the catalog's entries.
RECURSIVE SumSizes(_, _)
SumSizes(d, i) == IF i > Len(d) THEN 0 ELSE d[i].size + SumSizes(d, i + 1)

\* C5: with a catalog that is not empty, the length field of DATA is the
\* number of bytes between that field and the HIRC tag, which is the sum of
\* the clip sizes and of the padding bytes written.
C5_DataLength ==
    (pc \in {"mixers", "events", "done"} /\ Len(media_file_lookup) > 0) =>
        /\ TagAt(DataTagAt) = TagDATA
        /\ TagAt(DataBodyAt + DataLen) = TagHIRC
        /\ HIRC_len_location - 4 = DataBodyAt + DataLen
        /\ DataLen = SumSizes(media_file_lookup, 1) + padding_written

\* Two clips are written with padding between them.
C5_Witness ==
    /\ pc = "done"
    /\ Len(media_file_lookup) = 2
    /\ padding_written > 0
    /\ DataLen = SumSizes(media_file_lookup, 1) + padding_written

\* The bytes of the records written into HIRC.
RECURSIVE SumLen(_, _)
SumLen(log, i) == IF i > Len(log) THEN 0 ELSE log[i].len + SumLen(log, i + 1)

\* C6: the length field of HIRC is the number of bytes written after it up
\* to the end of the file: the 4 bytes of the object count and the bytes of
\* every record (5 prefix bytes and the body).
C6_HircLength ==
    pc = "done" =>
        /\ TagAt(HIRC_len_location - 4) = TagHIRC
        /\ U32At(HIRC_len_location) = Len(bnk_bytes) - (HIRC_len_location + 4)
        /\ U32At(HIRC_len_location) = 4 + SumLen(hirc_log, 1)

\* A bank with records of both categories is done.
C6_Witness ==
    /\ pc = "done"
    /\ Len(in_sfx_wems) > 0
    /\ Len(in_bgm_wems) > 0
    /\ U32At(HIRC_len_location) = 4 + SumLen(hirc_log, 1)
    /\ SumLen(hirc_log, 1) > 0

\* C7: with a catalog that is not empty, the length field of DIDX is 12
\* times the number of entries written into the reserved region; entry k is
\* written at byte 12 * (k - 1) of the region, and the last entry ends where
\* the DATA tag begins.
C7_DidxRegionFilled ==
    /\ pc = "media_headers" =>
           /\ didx_return_offset = 40
           /\ bnk_pos = didx_return_offset + 12 * (idx - 1)
           /\ bnk_pos <= didx_return_offset + DidxLen
           /\ (idx > Len(sorted_media_hashes) =>
                   /\ bnk_pos = didx_return_offset + DidxLen
                   /\ TagAt(bnk_pos) = TagDATA)
    /\ (PastMedia /\ Len(media_file_lookup) > 0) =>
           /\ HasDidx
           /\ DidxLen = 12 * DidxWritten
           /\ TagAt(40 + 12 * DidxWritten) = TagDATA

\* The two entries of a catalog of two clips are written, and the position
\* is at the DATA tag.
C7_Witness ==
    /\ pc = "media_headers"
    /\ idx = 3
    /\ Len(sorted_media_hashes) = 2
    /\ DidxLen = 24
    /\ TagAt(bnk_pos) = TagDATA

\* The categories that have at least one clip.
MixersPresent ==
    Cardinality({c \in {"SFX", "BGM"} :
        \/ c = "SFX" /\ in_sfx_wems # <<>>
        \/ c = "BGM" /\ in_bgm_wems # <<>>})

\* C8: the object count at the start of the HIRC body is
\* mixers_present + 3 * sfx_count + 5 * bgm_count, and so is the number of
\* records written into HIRC when the bank is done.
C8_ObjectCount ==
    /\ pc \in {"mixers", "events", "done"} =>
           U32At(HIRC_len_location + 4) =
               MixersPresent + 3 * Len(in_sfx_wems) + 5 * Len(in_bgm_wems)
    /\ pc = "done" =>
           Len(hirc_log) = MixersPresent + 3 * Len(in_sfx_wems) + 5 * Len(in_bgm_wems)

\* One SFX clip and one BGM clip: 2 + 3 + 5 = 10 objects.
C8_Witness ==
    /\ pc = "done"
    /\ Len(in_sfx_wems) = 1
    /\ Len(in_bgm_wems) = 1
    /\ U32At(HIRC_len_location + 4) = 10
    /\ Len(hirc_log) = 10

\* ================================================= claims: chunks and HIRC
\* The top-level chunks of the file from offset off on, as a reader walks
\* them: a 4-byte tag, a u32 length, the body.
RECURSIVE ChunksFrom(_)
ChunksFrom(off) ==
    IF ByteAt(off) = -1 \/ U32At(off + 4) = -1 THEN <<>>
    ELSE <<[tag |-> TagAt(off), at |-> off, len |-> U32At(off + 4)]>>
             \o ChunksFrom(off + 8 + U32At(off + 4))
Chunks == ChunksFrom(0)
ChunkTags == [k \in 1..Len(Chunks) |-> Chunks[k].tag]

\* The HIRC header is written: objects follow, or the bank is done.
InHirc == pc \in {"mixers", "events", "done"}

\* Where a reader finds the HIRC tag: behind the header, or behind DATA.
HircTagAt == IF HasDidx THEN DataBodyAt + DataLen ELSE 32
HircCount == U32At(HircTagAt + 8)

\* C12: when no clip is stored (no SFX line, and no BGM line or the option
\* exclude_bgm), the HIRC tag stands at byte 32, right behind the bank
\* header, the finished file has the two chunks BKHD and HIRC and no other,
\* and with no clip at all the object count is 0 and nothing follows it.
C12_EmptyCatalogOmitsMedia ==
    (InHirc /\ in_sfx_wems = <<>> /\ (exclude_bgm \/ in_bgm_wems = <<>>)) =>
        /\ TagAt(32) = TagHIRC
        /\ TagAt(0) = TagBKHD /\ U32At(4) = 24
        /\ (pc = "done" => ChunkTags = <<TagBKHD, TagHIRC>>)
        /\ (in_bgm_wems = <<>> =>
               /\ U32At(40) = 0
               /\ (pc = "done" => Len(bnk_bytes) = 44 /\ U32At(36) = 4))

\* A table of BGM lines only, built with exclude_bgm: HIRC follows the
\* header and holds the mixer and five objects for the clip.
C12_Witness ==
    /\ pc = "done"
    /\ exclude_bgm
    /\ in_sfx_wems = <<>>
    /\ Len(in_bgm_wems) = 1
    /\ ChunkTags = <<TagBKHD, TagHIRC>>
    /\ U32At(40) = 6

\* An empty table: the file is the header and an empty HIRC.
C12_WitnessEmptyTable ==
    /\ pc = "done"
    /\ lines_read = 0
    /\ Len(bnk_bytes) = 44
    /\ U32At(40) = 0

\* The object records of HIRC from offset off on, as a reader walks them:
\* a type byte, a u32 body length, and the body, which begins with the id.
RECURSIVE HircWalk(_)
HircWalk(off) ==
    IF ByteAt(off) = -1 THEN <<>>
    ELSE <<[at |-> off, type |-> ByteAt(off), len |-> U32At(off + 1),
            id |-> HashAt(off + 5)]>>
             \o HircWalk(off + 5 + U32At(off + 1))
HircObjects == IF InHirc THEN HircWalk(HircTagAt + 12) ELSE <<>>

\* What a record is, read from its bytes.
IsSound(o) == o.type = 2
IsSfxSound(o) == o.type = 2 /\ ByteAt(o.at + 13) = 0
IsBgmSound(o) == o.type = 2 /\ ByteAt(o.at + 13) = 2
IsMixer(o) == o.type = 7
IsPlay(o) == o.type = 3 /\ ByteAt(o.at + 9) = 3 /\ ByteAt(o.at + 10) = 4
IsStop(o) == o.type = 3 /\ ByteAt(o.at + 9) = 2 /\ ByteAt(o.at + 10) = 1
IsStop1(o) == IsStop(o) /\ U32At(o.at + 11) = 289663270
IsStop2(o) == IsStop(o) /\ U32At(o.at + 11) = 920168426
IsEvent(o) == o.type = 4
IsSfxEvent(o) == o.type = 4 /\ ByteAt(o.at + 9) = 1
IsBgmEvent(o) == o.type = 4 /\ ByteAt(o.at + 9) = 3
\* The fields of a sound record: the clip it plays and the clip's size.
SoundClip(o) == HashAt(o.at + 14)
SoundSize(o) == U32At(o.at + 18)
\* Action id k (from 1) of an event record.
EventAction(o, k) == HashAt(o.at + 10 + 4 * (k - 1))

\* The number of elements of seq that satisfy P.
CountIn(seq, P(_)) == Cardinality({i \in 1..Len(seq) : P(seq[i])})

\* The hashes of the paths of a list.
HashesOf(list) == {compute_hash(list[i]) : i \in 1..Len(list)}

\* C13: with exclude_bgm, (a) the clip index has one entry per SFX clip id
\* and no other, and every catalog entry is the clip of an SFX line, so the
\* blob area holds SFX clips and padding only; (b) in the finished bank every
\* BGM line still has its sound and, one behind the other, its stop, play,
\* stop and event records, there are as many BGM sounds and BGM events as
\* BGM lines and twice as many stops, and the BGM mixer is there exactly when
\* a BGM line is.
C13_ExcludedBgmKeepsObjects ==
    exclude_bgm =>
        /\ \A k \in 1..DidxWritten : DidxHash(k) \in HashesOf(in_sfx_wems)
        /\ InHirc =>
               /\ DidxWritten = Cardinality(HashesOf(in_sfx_wems))
               /\ \A i \in 1..Len(media_file_lookup) :
                      \E j \in 1..Len(in_sfx_wems) :
                          media_file_lookup[i].wem_filename = in_sfx_wems[j]
               /\ (in_sfx_wems = <<>> => TagAt(32) = TagHIRC)
        /\ pc = "done" =>
               \A objs \in {HircObjects} :
                   /\ CountIn(objs, IsBgmSound) = Len(in_bgm_wems)
                   /\ CountIn(objs, IsBgmEvent) = Len(in_bgm_wems)
                   /\ CountIn(objs, IsStop) = 2 * Len(in_bgm_wems)
                   /\ CountIn(objs, IsPlay) = Len(in_sfx_wems) + Len(in_bgm_wems)
                   /\ CountIn(objs, LAMBDA o :
                           IsMixer(o) /\ o.id = compute_hash(bnk_bgm_audio_mixer))
                          = (IF in_bgm_wems # <<>> THEN 1 ELSE 0)
                   /\ \A i \in 1..Len(in_bgm_wems) :
                          LET path == in_bgm_wems[i]
                          IN  /\ \E k \in 1..Len(objs) :
                                     /\ IsBgmSound(objs[k])
                                     /\ objs[k].id = compute_hash(path \o SuffixSound)
                              /\ \E k \in 1..(Len(objs) - 3) :
                                     /\ IsStop1(objs[k])
                                     /\ objs[k].id = compute_hash(path \o SuffixStop1)
                                     /\ IsPlay(objs[k + 1])
                                     /\ objs[k + 1].id = compute_hash(path \o SuffixPlay)
                                     /\ IsStop2(objs[k + 2])
                                     /\ objs[k + 2].id = compute_hash(path \o SuffixStop2)
                                     /\ IsBgmEvent(objs[k + 3])
                                     /\ objs[k + 3].id =
                                            compute_hash(path \o SuffixPlayEvent)

\* One SFX clip and one BGM clip under exclude_bgm: one clip-index entry,
\* and ten objects, five of them the BGM clip's.
C13_Witness ==
    /\ pc = "done"
    /\ exclude_bgm
    /\ Len(in_sfx_wems) = 1
    /\ Len(in_bgm_wems) = 1
    /\ in_bgm_wems[1] # in_sfx_wems[1]
    /\ DidxWritten = 1
    /\ Len(HircObjects) = 10
    /\ CountIn(HircObjects, IsBgmSound) = 1
    /\ CountIn(HircObjects, IsStop) = 2

\* The catalog's size for the clip of a sound record, -1 without an entry.
CatalogSize(o) ==
    IF DictHas(media_file_lookup, SoundClip(o))
    THEN DictGet(media_file_lookup, SoundClip(o)).size
    ELSE -1
\* The size of the file the catalog's entry was read from.
MeasuredSize(o) ==
    Len(wem_files[DictGet(media_file_lookup, SoundClip(o)).wem_filename].data)

C14_WitnessMeasuredBgm ==
    /\ pc = "done"
    /\ ~exclude_bgm
    /\ \E k \in 1..Len(HircObjects) :
           /\ IsBgmSound(HircObjects[k])
           /\ SoundSize(HircObjects[k]) = 2

\* The event records of HIRC, in the order of the file.
EventObjects == SelectSeq(HircObjects, IsEvent)

\* C15: the j-th event record of the file is the event of the j-th entry of
\* the sorted event list; for an SFX entry it declares one action and lists
\* the id of <path>_play and nothing more (a body of 9 bytes), for a BGM
\* entry it declares three and lists <path>_stop1, <path>_play and
\* <path>_stop2 in this order (a body of 17 bytes); the finished bank has
\* one event per line of either category.
C15_EventActionLists ==
    \A events \in {EventObjects} :
    /\ Len(events) <= Len(event_entry_list)
    /\ pc = "done" =>
           /\ Len(events) = Len(in_sfx_wems) + Len(in_bgm_wems)
           /\ CountIn(events, IsSfxEvent) = Len(in_sfx_wems)
           /\ CountIn(events, IsBgmEvent) = Len(in_bgm_wems)
    /\ \A j \in 1..Len(events) :
           LET o == events[j]
               path == event_entry_list[j].wem_filename
           IN  /\ o.id = compute_hash(path \o SuffixPlayEvent)
               /\ o.len = 5 + 4 * ByteAt(o.at + 9)
               /\ IF event_entry_list[j].wem_type = StrSFX
                  THEN /\ ByteAt(o.at + 9) = 1
                       /\ EventAction(o, 1) = compute_hash(path \o SuffixPlay)
                  ELSE /\ ByteAt(o.at + 9) = 3
                       /\ EventAction(o, 1) = compute_hash(path \o SuffixStop1)
                       /\ EventAction(o, 2) = compute_hash(path \o SuffixPlay)
                       /\ EventAction(o, 3) = compute_hash(path \o SuffixStop2)

\* The bank of 'SFX a' and 'BGM c' is done: the event of "a" lists a_play,
\* the event of "c" lists c_stop1, c_play, c_stop2.
C15_Witness ==
    /\ pc = "done"
    /\ in_sfx_wems = << <<97>> >>
    /\ in_bgm_wems = << <<99>> >>
    /\ \E j, k \in 1..Len(EventObjects) :
           /\ IsSfxEvent(EventObjects[j])
           /\ EventAction(EventObjects[j], 1) = compute_hash(<<97>> \o SuffixPlay)
           /\ IsBgmEvent(EventObjects[k])
           /\ EventAction(EventObjects[k], 1) = compute_hash(<<99>> \o SuffixStop1)
           /\ EventAction(EventObjects[k], 2) = compute_hash(<<99>> \o SuffixPlay)
           /\ EventAction(EventObjects[k], 3) = compute_hash(<<99>> \o SuffixStop2)

\* C16 as stated: once a line of a type other than SFX and BGM is read, the
\* run writes no byte of the output file and does not finish a bank.
C16_InvalidTypeIsFatal ==
    invalid_read > 0 => (bnk_bytes = <<>> /\ pc # "done")

\* C16 amended: a line of a type other than SFX and BGM is passed over: every
\* line read is in in_sfx_wems, in in_bgm_wems or among the invalid ones and
\* in one of them only, exit(1) is not called, and the finished file is a
\* bank (BKHD, then DIDX and DATA if a clip is stored, then HIRC) with one
\* event for each line that is not invalid.
C16_InvalidLineSkipped ==
    /\ lines_read = Len(in_sfx_wems) + Len(in_bgm_wems) + invalid_read
    /\ pc # "exit"
    /\ pc = "done" =>
           /\ ChunkTags = (IF Stored = <<>> THEN <<TagBKHD, TagHIRC>>
                           ELSE <<TagBKHD, TagDIDX, TagDATA, TagHIRC>>)
           /\ Len(EventObjects) = lines_read - invalid_read

\* A bank is done from a table of an invalid line and an SFX line.
C16_Witness ==
    /\ pc = "done"
    /\ lines_read = 2
    /\ invalid_read = 1
    /\ Len(in_sfx_wems) = 1
    /\ ChunkTags = <<TagBKHD, TagDIDX, TagDATA, TagHIRC>>
    /\ Len(EventObjects) = 1

\* The names whose hashes are the ids of the objects of this table's bank.
ObjectNames ==
    (IF in_sfx_wems # <<>> THEN {bnk_sfx_audio_mixer} ELSE {})
        \cup (IF in_bgm_wems # <<>> THEN {bnk_bgm_audio_mixer} ELSE {})
        \cup {in_sfx_wems[i] \o suffix :
                 i \in 1..Len(in_sfx_wems),
                 suffix \in {SuffixSound, SuffixPlay, SuffixPlayEvent}}
        \cup {in_bgm_wems[i] \o suffix :
                 i \in 1..Len(in_bgm_wems),
                 suffix \in {SuffixSound, SuffixStop1, SuffixPlay, SuffixStop2,
                             SuffixPlayEvent}}

\* compute_hash gives distinct names of S distinct values.
HashInjectiveOn(S) ==
    \A a, b \in S : a # b => compute_hash(a) # compute_hash(b)

\* C17: in a finished bank whose object names hash to distinct values, the
\* ids of the records of HIRC (sounds, mixers, actions, events) are pairwise
\* distinct, whatever table the script accepted.
C17_IdsDistinct ==
    (pc = "done" /\ HashInjectiveOn(ObjectNames)) =>
        \A objs \in {HircObjects} :
            \A j, k \in 1..Len(objs) : j # k => objs[j].id # objs[k].id

\* C18: compute_hash of make_pck and compute_hash of make_bnk return the same
\* value for every input string, so the clip id the pck carries for a path is
\* the wem hash the bank carries for it.
C18_SameHashInBothScripts ==
    (h_pc = "done" /\ h_pck_hash # <<>>) => h_pck_hash = h_hash

\* Both scripts have hashed "Ab", a name with a capital letter whose hash has
\* gone through the 32-bit mask, and both returned the hash of "ab".
C18_Witness ==
    /\ h_pc = "done"
    /\ h_name = <<65, 98>>
    /\ h_pck_hash = h_hash
    /\ h_pck_hash = pck_compute_hash(<<97, 98>>)
    /\ h_pck_hash # <<33052, 40389>>

\* The number of actions an event record lists.
EventActionCount(o) == ByteAt(o.at + 9)
IsAction(o) == o.type = 3

\* C20: read back from the HIRC chunk, the event records come in ascending
\* order of their ids; each event is immediately preceded by the action
\* records it lists, in the order it lists them (play for an SFX event;
\* stop1, play, stop2 for a BGM event); and every action record belongs to
\* the group of the next event record, so no record of another event stands
\* inside a group.
C20_EventsAscendingActionsBefore ==
    \A objs \in {HircObjects} :
    /\ \A j, k \in 1..Len(objs) :
           (j < k /\ IsEvent(objs[j]) /\ IsEvent(objs[k]))
               => ~HashLess(objs[k].id, objs[j].id)
    /\ \A j \in 1..Len(objs) :
           IsEvent(objs[j]) =>
               LET n == EventActionCount(objs[j])
               IN  /\ IsSfxEvent(objs[j]) \/ IsBgmEvent(objs[j])
                   /\ j > n
                   /\ \A k \in 1..n :
                          /\ IsAction(objs[j - n + k - 1])
                          /\ objs[j - n + k - 1].id = EventAction(objs[j], k)
                   /\ IsSfxEvent(objs[j]) => IsPlay(objs[j - 1])
                   /\ IsBgmEvent(objs[j]) =>
                          /\ IsStop1(objs[j - 3])
                          /\ IsPlay(objs[j - 2])
                          /\ IsStop2(objs[j - 1])
    /\ \A i \in 1..Len(objs) :
           IsAction(objs[i]) =>
               \E j \in (i + 1)..Len(objs) :
                   /\ IsEvent(objs[j])
                   /\ j - i <= EventActionCount(objs[j])
                   /\ \A m \in i..(j - 1) : IsAction(objs[m])
    /\ \A i, j \in 1..Len(objs) :
           (i < j /\ (IsAction(objs[i]) \/ IsEvent(objs[i])))
               => (IsAction(objs[j]) \/ IsEvent(objs[j]))

\* A bank of one SFX line and one BGM line is done; the BGM event, last in
\* the list the two loops build, stands first in the file with its three
\* actions, and the SFX event follows with its one.
C20_Witness ==
    /\ pc = "done"
    /\ Len(in_sfx_wems) = 1
    /\ Len(in_bgm_wems) = 1
    /\ \E j \in 1..Len(HircObjects) :
           /\ j + 2 <= Len(HircObjects)
           /\ j > 3
           /\ IsBgmEvent(HircObjects[j])
           /\ IsStop1(HircObjects[j - 3])
           /\ IsPlay(HircObjects[j + 1])
           /\ IsSfxEvent(HircObjects[j + 2])
           /\ HashLess(HircObjects[j].id, HircObjects[j + 2].id)

\* ============================================================ claims: pck
PckByteAt(off) == IF off + 1 \in 1..Len(pck_bytes) THEN pck_bytes[off + 1] ELSE 0
\* The id field of the k-th entry of the stream table, as halves.
PckEntryId(k) ==
    LET off == PckHeaderLen + PckEntryLen * (k - 1)
    IN  <<PckByteAt(off + 3) * 256 + PckByteAt(off + 2),
          PckByteAt(off + 1) * 256 + PckByteAt(off)>>
\* The number of entries the second loop has written so far.
PckEntriesWritten ==
    IF pck_pc = "done" THEN Len(wem_hashes)
    ELSE IF pck_pc \in {"entries", "crashed"} /\ pck_pos >= PckHeaderLen /\ pck_idx >= 1
              /\ pck_pos = PckHeaderLen + PckEntryLen * (pck_idx - 1)
         THEN pck_idx - 1
         ELSE 0

\* C19: in both pck builders the ids of the stream-table entries written so
\* far, read back from the file, are strictly ascending, so no id is written
\* twice.
C19_PckEntriesAscending ==
    \A k \in 1..(PckEntriesWritten - 1) : HashLess(PckEntryId(k), PckEntryId(k + 1))

\* make_pck_set_id has finished on a table that lists id 65536 before id 7,
\* and the file carries 7 before 65536.
C19_Witness ==
    /\ pck_script = "make_pck_set_id"
    /\ pck_pc = "done"
    /\ Len(pck_table) = 2
    /\ pck_table[1][2] = <<1, 0>>
    /\ pck_table[2][2] = <<0, 7>>
    /\ PckEntriesWritten = 2
    /\ PckEntryId(1) = <<0, 7>>
    /\ PckEntryId(2) = <<1, 0>>

\* make_pck has finished on a table whose first path hashes above its second.
C19_WitnessMakePck ==
    /\ pck_script = "make_pck"
    /\ pck_pc = "done"
    /\ Len(pck_table) = 2
    /\ HashLess(pck_compute_hash(pck_table[2][2]), pck_compute_hash(pck_table[1][2]))
    /\ PckEntriesWritten = 2
    /\ PckEntryId(1) = pck_compute_hash(pck_table[2][2])
    /\ PckEntryId(2) = pck_compute_hash(pck_table[1][2])

\* make_pck_set_id has finished on a table that names id 7 twice, and the
\* file carries one entry.
C19_WitnessReplaced ==
    /\ pck_script = "make_pck_set_id"
    /\ pck_pc = "done"
    /\ Len(pck_table) = 2
    /\ pck_table[1][2] = <<0, 7>>
    /\ pck_table[2][2] = <<0, 7>>
    /\ PckEntriesWritten = 1
    /\ PckEntryId(1) = <<0, 7>>

IsSfxMixer(o) == IsMixer(o) /\ o.id = compute_hash(bnk_sfx_audio_mixer)
IsBgmMixer(o) == IsMixer(o) /\ o.id = compute_hash(bnk_bgm_audio_mixer)
\* Where a mixer record keeps ulNumChilds: behind a body of 47 bytes (sfx)
\* or 42 bytes (bgm) that follows the 5-byte prefix.
MixerCountAt(o) == IF IsSfxMixer(o) THEN o.at + 52 ELSE o.at + 47
MixerChildCount(o) == U32At(MixerCountAt(o))
MixerChild(o, k) == HashAt(MixerCountAt(o) + 4 * k)
\* A sound record of the category of a mixer record.
IsSoundOf(mixer, o) ==
    IF IsSfxMixer(mixer) THEN IsSfxSound(o) ELSE IsBgmSound(o)
\* DirectParentID of a sound record.
SoundParent(o) == HashAt(o.at + 32)
\* The lines of a category that the table holds.
LinesOf(mixer) == IF IsSfxMixer(mixer) THEN in_sfx_wems ELSE in_bgm_wems

\* What C21 says of the child list of every mixer record but its order: the
\* mixer is the SFX or the BGM mixer, its child count is the number of lines
\* and of sound records of its category, and child k is the id of the k-th
\* sound record of the category.
MixerListsItsSounds(objs) ==
    \A j \in 1..Len(objs) :
        IsMixer(objs[j]) =>
            LET mixer == objs[j]
                n == MixerChildCount(mixer)
                sounds == SelectSeq(objs, LAMBDA o : IsSoundOf(mixer, o))
            IN  /\ IsSfxMixer(mixer) \/ IsBgmMixer(mixer)
                /\ n >= 1
                /\ n = Len(LinesOf(mixer))
                /\ n = Len(sounds)
                /\ mixer.len = (MixerCountAt(mixer) - mixer.at - 5) + 4 + 4 * n
                /\ \A k \in 1..n : MixerChild(mixer, k) = sounds[k].id

\* The clip id of the sound record that carries a sound id.
ClipOfSound(objs, id) ==
    SoundClip(objs[CHOOSE i \in 1..Len(objs) : IsSound(objs[i]) /\ objs[i].id = id])

\* C21 as stated: the children of each mixer are the ids of its category's
\* sounds, counted right, and listed in ascending order of the clip id of
\* the clip each sound wraps.
C21_ChildrenInClipOrder ==
    \A objs \in {HircObjects} :
    /\ MixerListsItsSounds(objs)
    /\ \A j \in 1..Len(objs) :
           IsMixer(objs[j]) =>
               \A k \in 1..(MixerChildCount(objs[j]) - 1) :
                   ~HashLess(ClipOfSound(objs, MixerChild(objs[j], k + 1)),
                             ClipOfSound(objs, MixerChild(objs[j], k)))

\* C21 amended: the children of each mixer are the ids of its category's
\* sounds, counted right, and listed in ascending order of the sound ids,
\* the order in which the sound records stand in the file.
C21_ChildrenInSoundOrder ==
    \A objs \in {HircObjects} :
    /\ MixerListsItsSounds(objs)
    /\ \A j \in 1..Len(objs) :
           IsMixer(objs[j]) =>
               \A k \in 1..(MixerChildCount(objs[j]) - 1) :
                   ~HashLess(MixerChild(objs[j], k + 1), MixerChild(objs[j], k))

\* A bank of 'SFX a' and 'SFX c' is done: the SFX mixer lists a_sound before
\* c_sound, in ascending order of sound id, and the clip of "c" has the
\* smaller clip id.
C21_Witness ==
    /\ pc = "done"
    /\ in_sfx_wems = << <<97>>, <<99>> >>
    /\ \E j \in 1..Len(HircObjects) :
           /\ IsSfxMixer(HircObjects[j])
           /\ MixerChildCount(HircObjects[j]) = 2
           /\ MixerChild(HircObjects[j], 1) = compute_hash(<<97>> \o SuffixSound)
           /\ MixerChild(HircObjects[j], 2) = compute_hash(<<99>> \o SuffixSound)
           /\ HashLess(MixerChild(HircObjects[j], 1), MixerChild(HircObjects[j], 2))
           /\ HashLess(compute_hash(<<99>>), compute_hash(<<97>>))

\* C22: in the records of HIRC, read back in file order, (a) a sound record
\* is followed by a sound record of its category with an id not below its
\* own, or by the mixer of its category; (b) a mixer is the SFX or the BGM
\* mixer, is directly preceded by the sounds of its category, all of them,
\* and each mixer occurs once; (c) nothing but action and event records
\* follows the first action record; (d) a category without a line has no
\* sound, no mixer and no event in the file, and in the finished bank a
\* category with a line has its mixer.
C22_HierarchyOrder ==
    \A objs \in {HircObjects} :
    /\ \A i \in 1..(Len(objs) - 1) :
           IsSound(objs[i]) =>
               \/ /\ IsSfxSound(objs[i]) /\ IsSfxSound(objs[i + 1])
                  /\ ~HashLess(objs[i + 1].id, objs[i].id)
               \/ /\ IsBgmSound(objs[i]) /\ IsBgmSound(objs[i + 1])
                  /\ ~HashLess(objs[i + 1].id, objs[i].id)
               \/ IsSfxSound(objs[i]) /\ IsSfxMixer(objs[i + 1])
               \/ IsBgmSound(objs[i]) /\ IsBgmMixer(objs[i + 1])
    /\ \A j \in 1..Len(objs) :
           IsMixer(objs[j]) =>
               LET n == CountIn(objs, LAMBDA o : IsSoundOf(objs[j], o))
               IN  /\ IsSfxMixer(objs[j]) \/ IsBgmMixer(objs[j])
                   /\ n >= 1
                   /\ j > n
                   /\ \A k \in (j - n)..(j - 1) : IsSoundOf(objs[j], objs[k])
                   /\ \A k \in 1..Len(objs) : (k # j) => objs[k].id # objs[j].id
    /\ \A i, j \in 1..Len(objs) :
           (i < j /\ (IsAction(objs[i]) \/ IsEvent(objs[i])))
               => (IsAction(objs[j]) \/ IsEvent(objs[j]))
    /\ \A i, j \in 1..Len(objs) :
           (IsAction(objs[j]) \/ IsEvent(objs[j])) /\ (IsSound(objs[i]) \/ IsMixer(objs[i]))
               => i < j
    /\ Len(in_sfx_wems) = 0 =>
           /\ CountIn(objs, IsSfxSound) = 0
           /\ CountIn(objs, IsSfxMixer) = 0
           /\ CountIn(objs, IsSfxEvent) = 0
    /\ Len(in_bgm_wems) = 0 =>
           /\ CountIn(objs, IsBgmSound) = 0
           /\ CountIn(objs, IsBgmMixer) = 0
           /\ CountIn(objs, IsBgmEvent) = 0
    /\ (Len(in_sfx_wems) = 0 /\ Len(in_bgm_wems) = 0) => Len(objs) = 0
    /\ pc \in {"events", "done"} =>
           /\ CountIn(objs, IsSfxMixer) = (IF Len(in_sfx_wems) > 0 THEN 1 ELSE 0)
           /\ CountIn(objs, IsBgmMixer) = (IF Len(in_bgm_wems) > 0 THEN 1 ELSE 0)
           /\ CountIn(objs, IsSfxSound) = Len(in_sfx_wems)
           /\ CountIn(objs, IsBgmSound) = Len(in_bgm_wems)

\* A bank of an SFX line and a BGM line is done: a sound and its mixer, the
\* other sound and its mixer, then the six action and event records.
C22_Witness ==
    /\ pc = "done"
    /\ Len(in_sfx_wems) = 1
    /\ Len(in_bgm_wems) = 1
    /\ Len(HircObjects) = 10
    /\ IsSound(HircObjects[1])
    /\ IsMixer(HircObjects[2])
    /\ IsSound(HircObjects[3])
    /\ IsMixer(HircObjects[4])
    /\ HircObjects[1].id # HircObjects[3].id
    /\ IsSoundOf(HircObjects[2], HircObjects[1])
    /\ IsSoundOf(HircObjects[4], HircObjects[3])
    /\ \A i \in 5..10 : IsAction(HircObjects[i]) \/ IsEvent(HircObjects[i])

\* A bank of 'SFX c' and 'SFX a' is done: the two SFX sounds in ascending
\* order of sound id, the SFX mixer, no BGM record.
C22_WitnessEmptyCategory ==
    /\ pc = "done"
    /\ in_sfx_wems = << <<99>>, <<97>> >>
    /\ in_bgm_wems = <<>>
    /\ Len(HircObjects) = 7
    /\ HircObjects[1].id = compute_hash(<<97>> \o SuffixSound)
    /\ HircObjects[2].id = compute_hash(<<99>> \o SuffixSound)
    /\ HashLess(HircObjects[1].id, HircObjects[2].id)
    /\ IsSfxMixer(HircObjects[3])
    /\ CountIn(HircObjects, IsBgmMixer) = 0

\* The type byte each kind of record starts with.
TypeOfKind(kind) ==
    IF kind \in {"sfx_sound", "bgm_sound"} THEN 2
    ELSE IF kind \in {"sfx_mixer", "bgm_mixer"} THEN 7
    ELSE IF kind \in {"play", "stop1", "stop2"} THEN 3
    ELSE 4

\* C23: for every record written into HIRC, the u32 behind the type byte is
\* the number of bytes written for the record behind its 5-byte prefix, so a
\* reader that walks the chunk by the declared lengths finds every record
\* where it was written and the next one, or the end of the file, right
\* behind it; a mixer of n children declares 0x33 + 4n (sfx) or 0x2E + 4n
\* (bgm).
C23_DeclaredLengths ==
    \A objs \in {HircObjects} :
    /\ InHirc => Len(objs) = Len(hirc_log)
    /\ \A i \in 1..Len(hirc_log) :
           LET r == hirc_log[i]
           IN  /\ ByteAt(r.at) = TypeOfKind(r.kind)
               /\ U32At(r.at + 1) = r.len - 5
               /\ HashAt(r.at + 5) = r.id
               /\ InHirc => objs[i].at = r.at
               /\ IF i < Len(hirc_log) THEN hirc_log[i + 1].at = r.at + r.len
                  ELSE pc # "crashed" => r.at + r.len = Len(bnk_bytes)
               /\ r.kind = "sfx_mixer" =>
                      U32At(r.at + 1) = 51 + 4 * Len(in_sfx_wems)
               /\ r.kind = "bgm_mixer" =>
                      U32At(r.at + 1) = 46 + 4 * Len(in_bgm_wems)

\* A bank of two SFX lines is done: its mixer of two children declares
\* 0x33 + 8 bytes and takes 64 bytes of the file.
C23_Witness ==
    /\ pc = "done"
    /\ Len(in_sfx_wems) = 2
    /\ \E i \in 1..Len(hirc_log) :
           /\ hirc_log[i].kind = "sfx_mixer"
           /\ hirc_log[i].len = 64
           /\ U32At(hirc_log[i].at + 1) = 59
           /\ MixerChildCount(HircObjects[i]) = 2

\* A bank of an SFX line and a BGM line is done: all nine kinds of record
\* are in the file.
C23_WitnessAllKinds ==
    /\ pc = "done"
    /\ {hirc_log[i].kind : i \in 1..Len(hirc_log)}
           = {"sfx_sound", "bgm_sound", "sfx_mixer", "bgm_mixer", "play", "stop1",
              "stop2", "sfx_event", "bgm_event"}
    /\ Len(HircObjects) = Len(hirc_log)

\* ========================================================= claims: media
\* What one step may do to the catalog: a new entry starts with offset and
\* size -1; an entry changes only from -1 and -1 to its realized offset and
\* size, in the iteration of the DATA loop that is at its key, and that step
\* puts the bytes of its clip into the file at that offset of the blob area,
\* up to the end of the file.
C24_Step ==
    /\ Len(media_file_lookup') >= Len(media_file_lookup)
    /\ \A i \in 1..Len(media_file_lookup') :
           LET new == media_file_lookup'[i]
           IN  IF i > Len(media_file_lookup)
               THEN new.offset = -1 /\ new.size = -1
               ELSE LET old == media_file_lookup[i]
                    IN  new # old =>
                            /\ old.offset = -1 /\ old.size = -1
                            /\ new.offset >= 0 /\ new.size >= 0
                            /\ new.hash = old.hash
                            /\ new.wem_filename = old.wem_filename
                            /\ pc = "data"
                            /\ idx <= Len(sorted_media_hashes)
                            /\ sorted_media_hashes[idx] = old.hash
                            /\ wem_files'[new.wem_filename].exists
                            /\ new.size = Len(wem_files'[new.wem_filename].data)
                            /\ Len(bnk_bytes') = data_size_offset + 4 + new.offset + new.size
                            /\ SubSeq(bnk_bytes', Len(bnk_bytes') - new.size + 1, Len(bnk_bytes'))
                                   = wem_files'[new.wem_filename].data

\* Once the script is at the clip index, no entry of the catalog is unset,
\* and every clip-index entry written carries the offset and size of its
\* catalog entry, neither of them -1.
C24_SetBeforeIndex ==
    /\ (pc = "media_headers" \/ DidxWritten > 0) =>
           \A i \in 1..Len(media_file_lookup) :
               media_file_lookup[i].offset >= 0 /\ media_file_lookup[i].size >= 0
    /\ \A k \in 1..DidxWritten :
           LET media_entry == DictGet(media_file_lookup, sorted_media_hashes[k])
           IN  /\ DidxOffset(k) = media_entry.offset
               /\ DidxSize(k) = media_entry.size
               /\ DidxOffset(k) >= 0
               /\ DidxSize(k) >= 0

\* C24: each catalog entry's offset and size are assigned once, from the
\* unset -1 to the realized values, in the step that writes the clip's bytes
\* into the blob area; every entry is assigned before the first clip-index
\* entry is written, and no clip-index entry is written from an unset value.
C24_AssignedOnceBeforeIndex == [][C24_Step]_vars /\ []C24_SetBeforeIndex

\* In the DATA loop of a catalog of two clips, the first clip is written and
\* its entry realized, the entry of the second is still unset.
C24_Witness ==
    /\ pc = "data"
    /\ idx = 2
    /\ Len(media_file_lookup) = 2
    /\ DictGet(media_file_lookup, sorted_media_hashes[1]).offset = 0
    /\ DictGet(media_file_lookup, sorted_media_hashes[1]).size > 0
    /\ DictGet(media_file_lookup, sorted_media_hashes[2]).offset = -1
    /\ DictGet(media_file_lookup, sorted_media_hashes[2]).size = -1

\* The clip index of two clips is written from two realized entries.
C24_WitnessIndexWritten ==
    /\ pc = "hirc"
    /\ DidxWritten = 2
    /\ DidxSize(1) > 0
    /\ DidxOffset(2) > 0

\* The offsets (from 0) at which a step changes a byte of the file.
ChangedOffsets ==
    {off \in 0..(Len(bnk_bytes) - 1) :
        off >= Len(bnk_bytes') \/ bnk_bytes'[off + 1] # bnk_bytes[off + 1]}

\* What the two back-patching steps do to the file: the patch of the DATA
\* length changes bytes of the four-byte field behind the DATA tag only, the
\* write of clip-index entry idx changes bytes of the twelve reserved for it
\* inside the DIDX body only; neither makes the file longer or shorter, and
\* every byte they overwrite was a reserved 0.
C25_Step ==
    /\ (pc = "data" /\ pc' = "media_headers") =>
           /\ Len(bnk_bytes') = Len(bnk_bytes)
           /\ ChangedOffsets \subseteq data_size_offset..(data_size_offset + 3)
           /\ \A off \in ChangedOffsets : bnk_bytes[off + 1] = 0
           /\ bnk_pos' = didx_return_offset
    /\ pc = "media_headers" =>
           /\ Len(bnk_bytes') = Len(bnk_bytes)
           /\ ChangedOffsets \subseteq
                  (didx_return_offset + 12 * (idx - 1))..(didx_return_offset + 12 * idx - 1)
           /\ ChangedOffsets \subseteq 40..(40 + DidxLen - 1)
           /\ \A off \in ChangedOffsets : bnk_bytes[off + 1] = 0
           /\ pc' = "hirc" => (ChangedOffsets = {} /\ bnk_pos' = Len(bnk_bytes))

\* After the back-patching the position is the end of the file, and the
\* HIRC tag stands at the byte behind the last byte of the blob area: behind
\* the DATA body of the declared length, which ends with the last clip.
C25_ResumeAtEnd ==
    /\ pc = "hirc" => bnk_pos = Len(bnk_bytes)
    /\ (InHirc /\ HasDidx) =>
           LET last == DictGet(media_file_lookup,
                               sorted_media_hashes[Len(sorted_media_hashes)])
           IN  /\ TagAt(HircTagAt) = TagHIRC
               /\ HIRC_len_location = HircTagAt + 4
               /\ HircTagAt = DataBodyAt + last.offset + last.size
               /\ TagAt(32) = TagDIDX
               /\ TagAt(DataTagAt) = TagDATA
               /\ TagAt(0) = TagBKHD

\* C25: the back-patching writes change only bytes reserved for them (the
\* DATA length field and the clip-index entries), so the bank header, the
\* DIDX tag and length, the DATA tag and every clip byte stay as written,
\* and afterwards writing resumes at the end of the file: the HIRC tag
\* begins at the byte behind the last byte of the blob area.
C25_BackpatchFrame == [][C25_Step]_vars /\ []C25_ResumeAtEnd

\* A bank of two clips is in its HIRC part: both clip-index entries were
\* patched in, and the HIRC tag stands behind the second clip.
C25_Witness ==
    /\ pc = "mixers"
    /\ HasDidx
    /\ DidxWritten = 2
    /\ DidxSize(1) > 0
    /\ DidxSize(2) > 0
    /\ DataLen > 0
    /\ TagAt(DataBodyAt + DataLen) = TagHIRC

\* The clip ids of the clip index in the file.
DidxHashes == {DidxHash(k) : k \in 1..DidxWritten}

\* C26: the clip id of every SFX sound, and without exclude_bgm of every
\* BGM sound, is a key of the catalog and an id of the clip index in the
\* file, for the sounds of the list and for the sound records written; the
\* lookup of line 222 never raises, so a run stops on an error only in the
\* DATA loop, before HIRC is begun.
C26_SoundClipsResolve ==
    /\ \A i \in 1..Len(sound_entry_list) :
           (sound_entry_list[i].wem_type = StrSFX \/ ~exclude_bgm) =>
               DictHas(media_file_lookup, sound_entry_list[i].wem_hash)
    /\ \A objs \in {HircObjects} :
           \A j \in 1..Len(objs) :
               (IsSfxSound(objs[j]) \/ (IsBgmSound(objs[j]) /\ ~exclude_bgm)) =>
                   /\ DictHas(media_file_lookup, SoundClip(objs[j]))
                   /\ SoundClip(objs[j]) \in DidxHashes
    /\ pc = "crashed" => (HIRC_len_location = -1 /\ sound_entry_list = <<>>)

\* Without exclude_bgm a bank of an SFX and a BGM line is done, and both
\* sounds name a clip of the catalog.
C26_Witness ==
    /\ pc = "done"
    /\ ~exclude_bgm
    /\ Len(media_file_lookup) = 2
    /\ \E i, j \in 1..Len(HircObjects) :
           /\ IsSfxSound(HircObjects[i])
           /\ IsBgmSound(HircObjects[j])
           /\ SoundClip(HircObjects[i]) # SoundClip(HircObjects[j])
           /\ DictHas(media_file_lookup, SoundClip(HircObjects[i]))
           /\ DictHas(media_file_lookup, SoundClip(HircObjects[j]))

\* With exclude_bgm a bank is done whose BGM sound names a clip that is no
\* key of the catalog, and whose SFX sound names one that is.
C26_WitnessAbsentBgm ==
    /\ pc = "done"
    /\ exclude_bgm
    /\ \E i, j \in 1..Len(HircObjects) :
           /\ IsSfxSound(HircObjects[i])
           /\ DictHas(media_file_lookup, SoundClip(HircObjects[i]))
           /\ IsBgmSound(HircObjects[j])
           /\ ~DictHas(media_file_lookup, SoundClip(HircObjects[j]))

\* ================================================= claims: a missing clip
\* The run has stopped on an error.
Crashed == pc = "crashed"

\* What a step of the DATA loop does about the file of its clip: it goes on
\* only if open() found the file, and if it stops, it is at that clip, the
\* catalog and the loop index stay as they are, and the file grows by the
\* padding written ahead of the clip and by nothing else.  A run that has
\* stopped takes no further step.
C27_Step ==
    /\ ~Crashed
    /\ (pc = "data" /\ idx <= Len(sorted_media_hashes)) =>
           LET path == DictGet(media_file_lookup, sorted_media_hashes[idx]).wem_filename
           IN  /\ pc' = "data" => (idx' = idx + 1 /\ wem_files'[path].exists)
               /\ pc' \in {"data", "crashed"}
               /\ pc' = "crashed" =>
                      /\ ~wem_files'[path].exists
                      /\ idx' = idx
                      /\ media_file_lookup' = media_file_lookup
                      /\ Len(bnk_bytes') >= Len(bnk_bytes)
                      /\ bnk_bytes' = bnk_bytes \o Zeros(Len(bnk_bytes') - Len(bnk_bytes))
    /\ pc' = "crashed" => pc = "data"

\* The file a stopped run leaves: the bank header, the DIDX tag and length,
\* a clip index of zeros, the DATA tag, a DATA length of 0, and the clips
\* written before the missing one; no later clip is realized and no HIRC
\* chunk is begun.
C27_PartialFile ==
    Crashed =>
        /\ idx <= Len(sorted_media_hashes)
        /\ \A k \in 1..Len(sorted_media_hashes) :
               LET media_entry == DictGet(media_file_lookup, sorted_media_hashes[k])
               IN  IF k < idx THEN media_entry.offset >= 0 /\ media_entry.size >= 0
                   ELSE media_entry.offset = -1 /\ media_entry.size = -1
        /\ TagAt(0) = TagBKHD
        /\ TagAt(32) = TagDIDX
        /\ TagAt(data_size_offset - 4) = TagDATA
        /\ U32At(data_size_offset) = 0
        /\ \A off \in didx_return_offset..(data_size_offset - 5) : ByteAt(off) = 0
        /\ Len(bnk_bytes) = data_size_offset + 4 + wem_offset
        /\ HIRC_len_location = -1
        /\ hirc_log = <<>>
        /\ \A off \in 0..(Len(bnk_bytes) - 4) : TagAt(off) # TagHIRC

\* C27: when the file of a clip is missing, the run stops at that clip: no
\* later clip and no HIRC chunk is written, no step follows, and the output
\* file stays partially written, with a DATA length of 0 and a clip index
\* of zeros.
C27_MissingClipIsFatal == [][C27_Step]_vars /\ []C27_PartialFile

\* The first clip of two was written (3 bytes), the file of the second is
\* missing: the run has stopped behind the padding of the second clip.
C27_Witness ==
    /\ Crashed
    /\ Len(sorted_media_hashes) = 2
    /\ idx = 2
    /\ DictGet(media_file_lookup, sorted_media_hashes[1]).size = 3
    /\ DictGet(media_file_lookup, sorted_media_hashes[2]).size = -1
    /\ U32At(data_size_offset) = 0
    /\ Len(bnk_bytes) > data_size_offset + 4 + 3

\* ==================================================== claims: references
\* idExt of an action record, as halves and as a number.
ActionTarget(o) == HashAt(o.at + 11)
\* The bank id a play action ends with.
PlayBank(o) == HashAt(o.at + 19)
\* OverrideBusId and DirectParentID of a mixer record.
MixerBus(o) == U32At(o.at + 14)
MixerParent(o) == U32At(o.at + 18)
\* OverrideBusId of a sound record.
SoundBus(o) == U32At(o.at + 28)
\* The paths of the table's SFX and BGM lines.
LinePaths == {in_sfx_wems[i] : i \in 1..Len(in_sfx_wems)}
                 \cup {in_bgm_wems[i] : i \in 1..Len(in_bgm_wems)}

\* C28: among the records of HIRC, (a) once the mixers are written, the
\* parent id of every sound is the id of a mixer record of its category that
\* lists the sound as a child; (b) every child of a mixer is the id of a
\* sound record whose parent is that mixer; (c) every play action targets a
\* sound record, the one built from the path the action is built from, and
\* names the bank of the header; (d) every event lists the ids of the action
\* records directly before it; (e) the ids that do not resolve inside the
\* chunk are the fixed constants: the targets of the two stop actions, the
\* bus of the SFX mixer and the parent of the BGM mixer, all other bus and
\* parent fields of mixers and sounds being 0 or resolved.
C28_ReferencesResolve ==
    \A objs \in {HircObjects} :
    /\ pc \in {"events", "done"} =>
           \A j \in 1..Len(objs) :
               IsSound(objs[j]) =>
                   \E m \in 1..Len(objs) :
                       /\ IsMixer(objs[m])
                       /\ IsSoundOf(objs[m], objs[j])
                       /\ objs[m].id = SoundParent(objs[j])
                       /\ \E k \in 1..MixerChildCount(objs[m]) :
                              MixerChild(objs[m], k) = objs[j].id
    /\ \A m \in 1..Len(objs) :
           IsMixer(objs[m]) =>
               /\ \A k \in 1..MixerChildCount(objs[m]) :
                      \E j \in 1..Len(objs) :
                          /\ IsSound(objs[j])
                          /\ objs[j].id = MixerChild(objs[m], k)
                          /\ SoundParent(objs[j]) = objs[m].id
               /\ IsSfxMixer(objs[m]) =>
                      (MixerBus(objs[m]) = 1584861537 /\ MixerParent(objs[m]) = 0)
               /\ IsBgmMixer(objs[m]) =>
                      (MixerBus(objs[m]) = 0 /\ MixerParent(objs[m]) = 289663270)
    /\ \A j \in 1..Len(objs) : IsSound(objs[j]) => SoundBus(objs[j]) = 0
    /\ \A j \in 1..Len(objs) :
           IsAction(objs[j]) =>
               \/ /\ IsPlay(objs[j])
                  /\ PlayBank(objs[j]) = HashAt(12)
                  /\ \E path \in LinePaths :
                         /\ objs[j].id = compute_hash(path \o SuffixPlay)
                         /\ ActionTarget(objs[j]) = compute_hash(path \o SuffixSound)
                         /\ \E i \in 1..Len(objs) :
                                /\ IsSound(objs[i])
                                /\ objs[i].id = ActionTarget(objs[j])
                                /\ SoundClip(objs[i]) = compute_hash(path)
               \/ /\ IsStop1(objs[j]) \/ IsStop2(objs[j])
                  /\ \A i \in 1..Len(objs) : objs[i].id # ActionTarget(objs[j])
    /\ \A j \in 1..Len(objs) :
           IsEvent(objs[j]) =>
               LET n == EventActionCount(objs[j])
               IN  /\ j > n
                   /\ \A k \in 1..n :
                          /\ IsAction(objs[j - n + k - 1])
                          /\ EventAction(objs[j], k) = objs[j - n + k - 1].id

\* A bank of 'SFX a' and 'BGM c' is done: the play action of "c" targets
\* the BGM sound c_sound, whose parent is the BGM mixer that lists it.
C28_Witness ==
    /\ pc = "done"
    /\ in_sfx_wems = << <<97>> >>
    /\ in_bgm_wems = << <<99>> >>
    /\ \E p, s, m \in 1..Len(HircObjects) :
           /\ IsPlay(HircObjects[p])
           /\ HircObjects[p].id = compute_hash(<<99>> \o SuffixPlay)
           /\ IsBgmSound(HircObjects[s])
           /\ ActionTarget(HircObjects[p]) = HircObjects[s].id
           /\ IsBgmMixer(HircObjects[m])
           /\ SoundParent(HircObjects[s]) = HircObjects[m].id
           /\ MixerChildCount(HircObjects[m]) = 1
           /\ MixerChild(HircObjects[m], 1) = HircObjects[s].id

\* ====================================================== claims: clip ranges
\* What C29 says of the clip index but the order of the offsets: the first
\* offset is 0, a range ends before or where the next begins, so that the
\* ranges [offset, offset + size) are pairwise disjoint, and every range
\* lies within [0, L], L the declared DATA length.
RangesDisjointWithinData ==
    /\ DidxWritten >= 1 => DidxOffset(1) = 0
    /\ \A k \in 1..DidxWritten :
           /\ DidxOffset(k) >= 0
           /\ DidxSize(k) >= 0
           /\ DidxOffset(k) + DidxSize(k) <= DataLen
    /\ \A j, k \in 1..DidxWritten :
           j < k => DidxOffset(j) + DidxSize(j) <= DidxOffset(k)

C29_WitnessEmptyClip ==
    /\ DidxWritten = 2
    /\ DidxSize(1) = 0
    /\ DidxOffset(1) = 0
    /\ DidxOffset(2) = 0

\* ============================================== claims: pck language ids
\* The language-id field of the k-th entry of the stream table.
PckEntryLanguage(k) ==
    LET off == PckHeaderLen + PckEntryLen * (k - 1) + 16
    IN  PckByteAt(off) + 256 * PckByteAt(off + 1) + 65536 * PckByteAt(off + 2)
            + 16777216 * PckByteAt(off + 3)
\* The lines of the table whose path hashes to an id.
PckLinesOfId(id) ==
    {i \in 1..Len(pck_table) : pck_compute_hash(pck_table[i][2]) = id}
\* A token that names a language: a number, or SFX, JPN, CHN, ENG.
IsLanguageToken(tok) == IsNumeric(tok) \/ tok \in DOMAIN langauge_id_lookup
LanguageOfToken(tok) == IF IsNumeric(tok) THEN IntOf(tok) ELSE langauge_id_lookup[tok]

\* C30: in make_pck, every entry written into the stream table comes from
\* one line of the table, the token of that line names a language, and the
\* entry's language-id field is the value of that token.
C30_LanguageFromOwnLine ==
    pck_script = "make_pck" =>
        \A k \in 1..PckEntriesWritten :
            \A i \in PckLinesOfId(PckEntryId(k)) :
                /\ IsLanguageToken(pck_table[i][1])
                /\ PckEntryLanguage(k) = LanguageOfToken(pck_table[i][1])

====
